---- MODULE Spec2Model ----
(***************************************************************************)
(* NodeMesh assistant backend (ANKVIT26/NodeMesh_Assistant).               *)
(*                                                                         *)
(* The repository holds several revisions of the backend.  Each one is     *)
(* modelled under its own tag:                                             *)
(*   "server"  src/backend/server.js   (Gemini, lastContextLocation)       *)
(*   "p2"      src/unnamed/part_002    (Gemini, sessionStore)              *)
(*   "p4"      src/unnamed/part_004    (Groq, sessionStore)                *)
(*   "p5"      src/unnamed/part_005    (Gemini, lastContextLocation)       *)
(*   "p6"      src/unnamed/part_006    (Gemini, lastContextLocation)       *)
(*                                                                         *)
(* The specifications of the module, each over its own variables:         *)
(*   SpecGemini        one invocation of callGemini, a step per candidate  *)
(*   SpecSession       the /chat handler of the revisions with a           *)
(*                     sessionStore                                        *)
(*   SpecSessionIds    the same, with every form of the sessionId field    *)
(*   Spec              the /chat handler of src/backend/server.js          *)
(*   SpecClassifier    one call of detectIntent                            *)
(*   SpecExtract       one call of extractJson                             *)
(*   SpecOutbound      one request of server.js with its outbound calls    *)
(*   SpecConversation  the conversational completion and the session       *)
(*                     arrays, kept by identity                            *)
(***************************************************************************)
EXTENDS Integers, Sequences, FiniteSets, TLC

VARIABLES
  \* ---- callGemini (SpecGemini) ----
  cgVariant,     \* which revision's callGemini runs
  cgKey,         \* GEMINI_API_KEY is set
  cgModel,       \* the `model` argument (preferred model)
  cgPc,          \* "idle" | "loop" | "cooldown" | "returned" | "raised"
  cgIdx,         \* index in modelsToTry of the next candidate
  cgCalls,       \* network calls issued so far: <<[model, outcome]>>
  cgPauses,      \* rate-limit cooldown pauses taken
  cgDelays,      \* pre-call delays taken (part_005's burst delay)
  cgLastError,   \* lastError: NoError or [kind, at]
  cgReturn,      \* the returned payload: NoReturn or [at, empty]
  \* ---- /chat with a sessionStore (SpecSession) ----
  ssVariant,     \* "p2" (part_002) or "p4" (part_004)
  ssCfg,         \* process configuration: API keys set, DISABLE_GEMINI
  sessionStore,  \* Map: session id -> array of turns (keys created lazily)
  sreq,          \* per in-flight request slot: the handler's locals and position
  turnLog,       \* history variable: per session id, every turn handed to
                 \* updateSessionHistory, in call order
  served,        \* history variable: the session id of every recorded
                 \* exchange, in recording order
  \* ---- /chat of src/backend/server.js (Spec) ----
  config,              \* WEATHER_API_KEY / NEWS_API_KEY set, DISABLE_GEMINI
  srvVariant,          \* which revision of the handler runs
  lastContextLocation, \* server.js:22
  lastResolved,        \* history variable: the latest non-empty location
                       \* a classification carried
  req,                 \* per in-flight request slot: the handler's locals
  \* ---- one call of detectIntent (SpecClassifier) ----
  clVariant,     \* which revision of detectIntent runs
  clOff,         \* DISABLE_GEMINI
  clMessage,     \* the message classified
  clPc,          \* "start" | "await" | "done"
  clAnswer,      \* what extractJson made of the backend's answer
  clResult,      \* what detectIntent returned
  \* ---- one call of extractJson (SpecExtract) ----
  exVariant,     \* which revision of extractJson runs
  exText,        \* the argument: null, or a text as a sequence of tokens
  exPc,          \* "start" | "done"
  exResult,      \* what extractJson returned
  \* ---- one request of server.js with its outbound calls (SpecOutbound) ----
  obCfg,         \* WEATHER_API_KEY / NEWS_API_KEY set, DISABLE_GEMINI
  obLast,        \* lastContextLocation
  obReq,         \* the request: the handler's locals and position
  obInv,         \* callGemini invocations not yet consumed by their caller:
                 \* name -> [idx, calls, state]
  obIssued,      \* outbound operations the request issued so far
                 \* (callGemini invocations and provider calls)
  obResponses,   \* responses sent for the request
  \* ---- the conversational completion and the session arrays
  \*      (SpecConversation) ----
  cvVariant,     \* "p2" (part_002) or "p4" (part_004)
  cvHeap,        \* the arrays allocated so far, by identity: <<array>>
  cvStore,       \* sessionStore: session id -> identity of its array
  cvReq,         \* per in-flight request slot: the locals of the general
                 \* strategy and of its completion call
  cvArrived      \* the number of requests that arrived

cgVars == <<cgVariant, cgKey, cgModel, cgPc, cgIdx, cgCalls, cgPauses,
            cgDelays, cgLastError, cgReturn>>

ssVars == <<ssVariant, ssCfg, sessionStore, sreq, turnLog, served>>

srvVars == <<srvVariant, config, lastContextLocation, lastResolved, req>>

clVars == <<clVariant, clOff, clMessage, clPc, clAnswer, clResult>>

exVars == <<exVariant, exText, exPc, exResult>>

obVars == <<obCfg, obLast, obReq, obInv, obIssued, obResponses>>

cvVars == <<cvVariant, cvHeap, cvStore, cvReq, cvArrived>>

vars == <<cgVars, ssVars, srvVars, clVars, exVars, obVars, cvVars>>

(***************************************************************************)
(* Values the variables of one specification keep while another runs       *)
(***************************************************************************)

NoRequest ==
  [pc |-> "idle", provided |-> "absent", sid |-> "", intent |-> "",
   status |-> 0, reported |-> "<undefined>"]

Slots == 1..2

EmptyStore == [k \in {} |-> <<>>]

SessionIdle ==
  /\ ssVariant = "p2"
  /\ ssCfg = [weatherKey |-> TRUE, newsKey |-> TRUE, geminiOff |-> FALSE]
  /\ sessionStore = EmptyStore
  /\ sreq = [r \in Slots |-> NoRequest]
  /\ turnLog = EmptyStore
  /\ served = <<>>

\* JavaScript's null and undefined.
Null == "<null>"
Undefined == "<undefined>"

NoServerRequest ==
  [pc |-> "idle", message |-> <<>>, history |-> "array",
   intent |-> Undefined, location |-> Undefined, topic |-> Undefined,
   activity |-> Undefined, pending |-> {}, lowMood |-> FALSE,
   reply |-> "", status |-> 0]

ServerIdle ==
  /\ srvVariant = "server"
  /\ config = [weatherKey |-> TRUE, newsKey |-> TRUE, geminiOff |-> FALSE]
  /\ lastContextLocation = Null
  /\ lastResolved = Null
  /\ req = [r \in Slots |-> NoServerRequest]

ClassifierIdle ==
  /\ clVariant = "server"
  /\ clOff = FALSE
  /\ clMessage = <<>>
  /\ clPc = "start"
  /\ clAnswer = [intent |-> Undefined, location |-> Undefined,
                 topic |-> Undefined, activity |-> Undefined]
  /\ clResult = [intent |-> Undefined, location |-> Undefined,
                 topic |-> Undefined, activity |-> Undefined]

ExtractIdle ==
  /\ exVariant = "server"
  /\ exText = [isNull |-> TRUE, tokens |-> <<>>]
  /\ exPc = "start"
  /\ exResult = [kind |-> "none", value |-> <<>>]

OutboundIdle ==
  /\ obCfg = [weatherKey |-> TRUE, newsKey |-> TRUE, geminiOff |-> FALSE]
  /\ obLast = Null
  /\ obReq = NoServerRequest
  /\ obInv = EmptyStore
  /\ obIssued = 0
  /\ obResponses = 0

NoConversation ==
  [pc |-> "idle", sid |-> "", history |-> 0, start |-> <<>>,
   idx |-> 1, sent |-> <<>>, status |-> 0]

ConversationIdle ==
  /\ cvVariant = "p2"
  /\ cvHeap = <<>>
  /\ cvStore = [k \in {} |-> 0]
  /\ cvReq = [r \in Slots |-> NoConversation]
  /\ cvArrived = 0

GeminiIdle ==
  /\ cgVariant = "server"
  /\ cgKey = TRUE
  /\ cgModel = "gemini-2.0-flash"
  /\ cgPc = "idle"
  /\ cgIdx = 1
  /\ cgCalls = <<>>
  /\ cgPauses = 0
  /\ cgDelays = 0
  /\ cgLastError = [kind |-> "none", at |-> 0]
  /\ cgReturn = [at |-> 0, empty |-> FALSE]

(***************************************************************************)
(* callGemini                                                              *)
(***************************************************************************)

GeminiVariants == {"server", "p2", "p5", "p6"}

\* The preferred model: the configured default of a revision, or another id.
PreferredModels == {"gemini-2.0-flash", "gemini-2.5-flash"}

\* What one http.post to a candidate can produce.
\*   "text"       200 with a non-empty text in candidates[0].content.parts[0]
\*   "emptytext"  200 with candidates[0] present and an empty text
\*   "nocand"     200 with no candidates
\*   "429" "404" "503" "400" "500"   error.response.status
\*   "timeout"    no response, error.code = ECONNABORTED
\*   "neterr"     no response, any other transport error
Outcomes == {"text", "emptytext", "nocand", "429", "404", "503", "400",
             "500", "timeout", "neterr"}

NoError == [kind |-> "none", at |-> 0]
NoReturn == [at |-> 0, empty |-> FALSE]

\* src/backend/server.js:68-73
modelsToTry_server(model) ==
  <<model, "gemini-2.0-flash", "gemini-1.5-flash-latest", "gemini-1.5-flash-002">>

\* src/unnamed/part_002:102-104
modelsToTry_p2(model) ==
  IF model = "gemini-2.0-flash" THEN <<model>> ELSE <<model, "gemini-2.0-flash">>

\* src/unnamed/part_005:44
modelsToTry_p5(model) ==
  <<model, "gemini-2.5-flash-lite", "gemini-1.5-flash", "gemini-2.0-flash">>

\* src/unnamed/part_006:71
modelsToTry_p6(model) ==
  <<model, "gemini-2.5-flash", "gemini-2.0-flash", "gemini-1.5-flash">>

modelsToTry(v, model) ==
  CASE v = "server" -> modelsToTry_server(model)
    [] v = "p2"     -> modelsToTry_p2(model)
    [] v = "p5"     -> modelsToTry_p5(model)
    [] v = "p6"     -> modelsToTry_p6(model)

\* The effect of one candidate's outcome on the loop:
\*   act    "return" | "next" (continue / fall to the loop's end) | "break"
\*   pause  TRUE when a cooldown is awaited before continuing
\*   err    the error stored in lastError, or "keep" when none is stored
Effect(a, p, e) == [act |-> a, pause |-> p, err |-> e]

\* Variants of OnOutcome_server with one planted fault each (used to show that
\* the claims below depend on the loop's handling of each outcome).
OnOutcome_server_503Fatal(o) ==
  CASE o = "text"                   -> Effect("return", FALSE, "keep")
    [] o \in {"emptytext", "nocand"} -> Effect("next", FALSE, "EmptyResponse")
    [] o = "429"                    -> Effect("next", TRUE, o)
    [] o = "404"                    -> Effect("next", FALSE, o)
    [] o \in {"400", "503"}         -> Effect("break", FALSE, o)
    [] OTHER                        -> Effect("next", FALSE, o)

OnOutcome_server_IgnoreText(o) ==
  CASE o \in {"text", "emptytext", "nocand"} -> Effect("next", FALSE, "EmptyResponse")
    [] o = "429"                    -> Effect("next", TRUE, o)
    [] o = "400"                    -> Effect("break", FALSE, o)
    [] OTHER                        -> Effect("next", FALSE, o)

OnOutcome_server_400Continues(o) ==
  CASE o = "text"                   -> Effect("return", FALSE, "keep")
    [] o \in {"emptytext", "nocand"} -> Effect("next", FALSE, "EmptyResponse")
    [] o = "429"                    -> Effect("next", TRUE, o)
    [] OTHER                        -> Effect("next", FALSE, o)

OnOutcome_server_NoCooldown(o) ==
  CASE o = "text"                   -> Effect("return", FALSE, "keep")
    [] o \in {"emptytext", "nocand"} -> Effect("next", FALSE, "EmptyResponse")
    [] o = "400"                    -> Effect("break", FALSE, o)
    [] OTHER                        -> Effect("next", FALSE, o)

OnOutcome_server_EmptyNotRecorded(o) ==
  CASE o = "text"                   -> Effect("return", FALSE, "keep")
    [] o \in {"emptytext", "nocand"} -> Effect("next", FALSE, "keep")
    [] o = "429"                    -> Effect("next", TRUE, o)
    [] o = "400"                    -> Effect("break", FALSE, o)
    [] OTHER                        -> Effect("next", FALSE, o)

OnOutcome_server_503Cooldown(o) ==
  CASE o = "text"                   -> Effect("return", FALSE, "keep")
    [] o \in {"emptytext", "nocand"} -> Effect("next", FALSE, "EmptyResponse")
    [] o \in {"429", "503"}         -> Effect("next", TRUE, o)
    [] o = "404"                    -> Effect("next", FALSE, o)
    [] o = "400"                    -> Effect("break", FALSE, o)
    [] OTHER                        -> Effect("next", FALSE, o)

\* src/backend/server.js:81-114
OnOutcome_server(o) ==
  CASE o = "text"                   -> Effect("return", FALSE, "keep")
    [] o \in {"emptytext", "nocand"} -> Effect("next", FALSE, "EmptyResponse")
    [] o = "429"                    -> Effect("next", TRUE, o)
    [] o \in {"404", "503"}         -> Effect("next", FALSE, o)
    [] o = "400"                    -> Effect("break", FALSE, o)
    [] OTHER                        -> Effect("next", FALSE, o)

\* src/unnamed/part_002:111-159
OnOutcome_p2(o) ==
  CASE o = "text"      -> Effect("return", FALSE, "keep")
    [] o = "nocand"    -> Effect("next", FALSE, "NoCandidates")
    [] o = "emptytext" -> Effect("next", FALSE, "EmptyText")
    [] o \in {"429", "500", "503", "timeout"} -> Effect("next", FALSE, o)
    [] OTHER           -> Effect("break", FALSE, o)

\* src/unnamed/part_005:49-70
OnOutcome_p5(o) ==
  CASE o = "text"                   -> Effect("return", FALSE, "keep")
    [] o \in {"emptytext", "nocand"} -> Effect("next", FALSE, "keep")
    [] o = "429"                    -> Effect("next", TRUE, o)
    [] o = "404"                    -> Effect("next", FALSE, o)
    [] o = "400"                    -> Effect("break", FALSE, o)
    [] OTHER                        -> Effect("next", FALSE, o)

\* src/unnamed/part_006:84-106
OnOutcome_p6(o) ==
  CASE o \in {"text", "emptytext"}   -> Effect("return", FALSE, "keep")
    [] o = "nocand"                 -> Effect("break", FALSE, "NoCandidates")
    [] o \in {"429", "503", "404"}  -> Effect("next", FALSE, o)
    [] OTHER                        -> Effect("break", FALSE, o)

OnOutcome(v, o) ==
  CASE v = "server" -> OnOutcome_server(o)
    [] v = "p2"     -> OnOutcome_p2(o)
    [] v = "p5"     -> OnOutcome_p5(o)
    [] v = "p6"     -> OnOutcome_p6(o)

\* part_005:51 awaits a 1.2 s delay before every call; the others do not.
PreCallDelay(v) == IF v = "p5" THEN 1 ELSE 0

\* `throw lastError || new Error(...)` (part_006:108 throws lastError alone)
RaisedError(lastError) ==
  IF lastError = NoError THEN [kind |-> "generic", at |-> 0] ELSE lastError

InitGemini ==
  /\ cgVariant \in GeminiVariants
  /\ cgKey \in BOOLEAN
  /\ cgModel \in PreferredModels
  /\ cgPc = "idle"
  /\ cgIdx = 1
  /\ cgCalls = <<>>
  /\ cgPauses = 0
  /\ cgDelays = 0
  /\ cgLastError = NoError
  /\ cgReturn = NoReturn
  /\ SessionIdle
  /\ ServerIdle
  /\ ClassifierIdle
  /\ ExtractIdle
  /\ OutboundIdle
  /\ ConversationIdle

\* Entry: `if (!GEMINI_API_KEY) throw new Error('Missing GEMINI_API_KEY')`.
CallGeminiEnter ==
  /\ cgPc = "idle"
  /\ IF cgKey
       THEN /\ cgPc' = "loop"
            /\ cgLastError' = cgLastError
       ELSE /\ cgPc' = "raised"
            /\ cgLastError' = [kind |-> "MissingKey", at |-> 0]
  /\ UNCHANGED <<cgVariant, cgKey, cgModel, cgIdx, cgCalls, cgPauses,
                 cgDelays, cgReturn>>
  /\ UNCHANGED <<ssVars, srvVars, clVars, exVars, obVars, cvVars>>

\* Where the loop goes after candidate cgIdx once nothing is awaited any more:
\* the next candidate, or the throw after the loop.
AfterCandidate(act) ==
  IF act = "break" \/ cgIdx = Len(modelsToTry(cgVariant, cgModel))
    THEN "raised" ELSE "loop"

\* One iteration of `for (const m of modelsToTry)`: one http.post and the
\* handling of its outcome.
TryCandidate(o) ==
  /\ cgPc = "loop"
  /\ cgIdx <= Len(modelsToTry(cgVariant, cgModel))
  /\ LET m == modelsToTry(cgVariant, cgModel)[cgIdx]
         e == OnOutcome(cgVariant, o)
     IN /\ cgCalls' = Append(cgCalls, [model |-> m, outcome |-> o])
        /\ cgDelays' = cgDelays + PreCallDelay(cgVariant)
        /\ cgLastError' = IF e.err = "keep" THEN cgLastError
                          ELSE [kind |-> e.err, at |-> cgIdx]
        /\ IF e.act = "return"
             THEN /\ cgPc' = "returned"
                  /\ cgReturn' = [at |-> cgIdx, empty |-> (o # "text")]
                  /\ cgIdx' = cgIdx
             ELSE /\ cgReturn' = cgReturn
                  /\ IF e.pause
                       THEN /\ cgPc' = "cooldown"
                            /\ cgIdx' = cgIdx
                       ELSE /\ cgPc' = AfterCandidate(e.act)
                            /\ cgIdx' = IF e.act = "break" THEN cgIdx ELSE cgIdx + 1
  /\ UNCHANGED <<cgVariant, cgKey, cgModel, cgPauses>>
  /\ UNCHANGED <<ssVars, srvVars, clVars, exVars, obVars, cvVars>>

\* The rate-limit cooldown elapses (`await new Promise(setTimeout)`), then
\* `continue`.
CooldownDone ==
  /\ cgPc = "cooldown"
  /\ cgPauses' = cgPauses + 1
  /\ cgPc' = AfterCandidate("next")
  /\ cgIdx' = cgIdx + 1
  /\ UNCHANGED <<cgVariant, cgKey, cgModel, cgCalls, cgDelays, cgLastError,
                 cgReturn>>
  /\ UNCHANGED <<ssVars, srvVars, clVars, exVars, obVars, cvVars>>

NextGemini ==
  \/ CallGeminiEnter
  \/ \E o \in Outcomes : TryCandidate(o)
  \/ CooldownDone

SpecGemini == InitGemini /\ [][NextGemini]_vars

(***************************************************************************)
(* Claims about callGemini (checked under SpecGemini)                      *)
(***************************************************************************)

CandidateList == modelsToTry(cgVariant, cgModel)

\* The calls issued so far went to the first Len(cgCalls) candidates of the
\* list, one call each, in the list's order.
CalledInListOrder ==
  /\ Len(cgCalls) <= Len(CandidateList)
  /\ \A k \in 1..Len(cgCalls) : cgCalls[k].model = CandidateList[k]

EveryCandidateCalled ==
  /\ Len(cgCalls) = Len(CandidateList)
  /\ CalledInListOrder

\* The faults after which a revision's loop stops at once (stated from the
\* claim's side, per revision).
FatalFaults(v) ==
  CASE v = "server" -> {"400"}
    [] v = "p5"     -> {"400"}
    [] v = "p2"     -> {"400", "404", "neterr"}
    [] v = "p6"     -> {"400", "500", "timeout", "neterr", "nocand"}

LastOutcome == cgCalls[Len(cgCalls)].outcome

C4_ReturnsAtFirstText ==
  \A k \in 1..Len(cgCalls) :
    cgCalls[k].outcome = "text" =>
      /\ k = Len(cgCalls)
      /\ cgPc = "returned"
      /\ cgReturn = [at |-> k, empty |-> FALSE]

C4_Witness ==
  /\ cgPc = "returned"
  /\ cgVariant = "server"
  /\ Len(cgCalls) = 2
  /\ cgCalls[2].outcome = "text"
  /\ Len(CandidateList) = 4

\* C5: a bad-request fault (HTTP 400) on a candidate stops the loop at once:
\* no remaining candidate is called and the client raises that error; a 400
\* on the first candidate raises after exactly one network call.
C5_BadRequestStopsLoop ==
  \A k \in 1..Len(cgCalls) :
    cgCalls[k].outcome = "400" =>
      /\ k = Len(cgCalls)
      /\ cgPc = "raised"
      /\ cgLastError = [kind |-> "400", at |-> k]

C5_Witness ==
  /\ cgVariant = "server"
  /\ cgPc = "raised"
  /\ Len(cgCalls) = 1
  /\ cgCalls[1].outcome = "400"
  /\ Len(CandidateList) = 4

\* The revisions that wait a cooldown after a rate-limit fault.
CooldownVariants == {"server", "p5"}

\* C6: in server.js and part_005, if the first N candidates are rate-limited
\* (429) and candidate N+1 returns a text, callGemini returns that text after
\* exactly N cooldown pauses and N+1 network calls, made to the first N+1
\* candidates in list order (the list is not restarted).
C6_RateLimitPausesThenNext ==
  (cgVariant \in CooldownVariants /\ cgPc = "returned") =>
    \A n \in 0..(Len(cgCalls) - 1) :
      (/\ \A k \in 1..n : cgCalls[k].outcome = "429"
       /\ cgCalls[n + 1].outcome = "text")
      => /\ cgPauses = n
         /\ Len(cgCalls) = n + 1
         /\ cgReturn = [at |-> n + 1, empty |-> FALSE]
         /\ CalledInListOrder

C6_Witness ==
  /\ cgVariant = "server"
  /\ cgPc = "returned"
  /\ Len(cgCalls) = 3
  /\ cgCalls[1].outcome = "429"
  /\ cgCalls[2].outcome = "429"
  /\ cgCalls[3].outcome = "text"
  /\ cgPauses = 2

\* The calls whose outcome stored an error in lastError.
RecordedFailures ==
  {k \in 1..Len(cgCalls) : OnOutcome(cgVariant, cgCalls[k].outcome).err # "keep"}

SetMax(S) == CHOOSE x \in S : \A y \in S : y <= x

\* C7 (original statement): when the loop ends without a success, the error
\* raised is the error observed on the last candidate that was called (a
\* generic exhaustion error only if no error was recorded at all).
C7_RaisesLastCandidateError ==
  (cgPc = "raised" /\ cgKey) =>
    \/ cgLastError = NoError
    \/ cgLastError.at = Len(cgCalls)

\* C7 (amended): when the loop ends without a success, the error raised is the
\* error most recently stored in lastError, i.e. that of the last candidate
\* whose call failed (generic if none did).  In server.js, part_002 and
\* part_006 that is the last candidate called; in part_005 a response without
\* text stores no error, so an earlier candidate's error may be the one raised.
C7_RaisesLastRecordedError ==
  (cgPc = "raised" /\ cgKey) =>
    /\ IF RecordedFailures = {}
         THEN RaisedError(cgLastError).kind = "generic"
         ELSE /\ RaisedError(cgLastError) = cgLastError
              /\ cgLastError.at = SetMax(RecordedFailures)
    /\ cgVariant \in {"server", "p2", "p6"} =>
         /\ cgLastError.at = Len(cgCalls)
         /\ cgLastError.kind \in
              {LastOutcome, "EmptyResponse", "NoCandidates", "EmptyText"}

C7_Witness ==
  /\ cgPc = "raised"
  /\ cgVariant = "server"
  /\ Len(cgCalls) = 4
  /\ cgCalls[1].outcome = "429"
  /\ cgCalls[4].outcome = "emptytext"
  /\ cgLastError = [kind |-> "EmptyResponse", at |-> 4]

(***************************************************************************)
(* Session memory and the /chat handler of part_002 and part_004           *)
(***************************************************************************)

SessionVariants == {"p2", "p4"}

\* part_002:34, part_004:42
MAX_HISTORY_TURNS == 6

\* Requests with a message that the model lets arrive (recorded exchanges
\* plus requests in flight).
MaxRequests == 8

\* The same limit for the runs in which clients also send an empty session
\* id (SpecSessionIds).
MaxShortRequests == 4

\* req.body.sessionId as the requests of SpecSession send it: not sent, or a
\* client's id.
ProvidedSessionIds == {"absent", "s1"}

\* The same with the empty string, as the requests of SpecSessionIds send it.
AllProvidedSessionIds == {"absent", "", "s1"}

\* part_002:406  `providedSessionId || 'default-session'`
SessionIdOf_p2(provided) ==
  IF provided \in {"absent", ""} THEN "default-session" ELSE provided

\* part_004:172  `const { message, sessionId = 'default' } = req.body`
\* (a destructuring default replaces undefined only)
SessionIdOf_p4(provided) ==
  IF provided = "absent" THEN "default" ELSE provided

SessionIdOf(v, provided) ==
  IF v = "p2" THEN SessionIdOf_p2(provided) ELSE SessionIdOf_p4(provided)

\* The text of a turn: the message of the n-th recorded exchange, or the
\* reply to it.  The handlers never compare message texts, so a request's
\* texts are named by the position its exchange takes in the recording order.
MessageOf(n) == <<"message", n>>
ReplyOf(n) == <<"reply", n>>

\* part_002:72  history.push({ role: role === 'user' ? 'user' : 'model', parts: [{ text }] })
Turn_p2(role, text) ==
  [role |-> IF role = "user" THEN "user" ELSE "model", text |-> text]

\* part_004:51  history.push({ role, content })
Turn_p4(role, text) == [role |-> role, text |-> text]

Turn(v, role, text) == IF v = "p2" THEN Turn_p2(role, text) ELSE Turn_p4(role, text)

\* Array.prototype.slice(-n): the last n elements (all of them if fewer).
SliceLast(h, n) == IF Len(h) <= n THEN h ELSE SubSeq(h, Len(h) - n + 1, Len(h))

\* part_002:63-68, part_004:44-47: the store after getSessionHistory(sessionId);
\* the array it returns is the entry of sessionId in that store.
getSessionHistory(store, sessionId) ==
  IF sessionId \in DOMAIN store
    THEN store
    ELSE [k \in DOMAIN store \cup {sessionId} |->
            IF k = sessionId THEN <<>> ELSE store[k]]

\* Faulty variants of updateSessionHistory.
updateSessionHistory_noEvict(store, sessionId, turn) ==
  LET s == getSessionHistory(store, sessionId)
  IN [s EXCEPT ![sessionId] = Append(s[sessionId], turn)]

updateSessionHistory_keepOldest(store, sessionId, turn) ==
  LET s == getSessionHistory(store, sessionId)
      pushed == Append(s[sessionId], turn)
  IN IF Len(pushed) > MAX_HISTORY_TURNS * 2
       THEN [s EXCEPT ![sessionId] = SubSeq(pushed, 1, MAX_HISTORY_TURNS * 2)]
       ELSE [s EXCEPT ![sessionId] = pushed]

updateSessionHistory_pushOnCopy(store, sessionId, turn) ==
  LET s == getSessionHistory(store, sessionId)
      pushed == Append(s[sessionId], turn)
  IN IF Len(pushed) > MAX_HISTORY_TURNS * 2
       THEN [s EXCEPT ![sessionId] = SliceLast(pushed, MAX_HISTORY_TURNS * 2)]
       ELSE s

\* part_002:70-78, part_004:49-55: push onto the stored array, then replace it
\* by its last 2 x MAX_HISTORY_TURNS elements when it grew beyond that.
updateSessionHistory(store, sessionId, turn) ==
  LET s == getSessionHistory(store, sessionId)
      pushed == Append(s[sessionId], turn)
  IN IF Len(pushed) > MAX_HISTORY_TURNS * 2
       THEN [s EXCEPT ![sessionId] = SliceLast(pushed, MAX_HISTORY_TURNS * 2)]
       ELSE [s EXCEPT ![sessionId] = pushed]

\* The call log after one more call of updateSessionHistory.
Logged(log, sessionId, turn) ==
  LET l == getSessionHistory(log, sessionId)
  IN [l EXCEPT ![sessionId] = Append(l[sessionId], turn)]

\* What the classifier hands to the dispatcher, as far as routing reads it.
\* BadTopic stands for a truthy non-string `topic` in the backend's JSON.
BadTopic == "<non-string>"

\* The classification rejecting (a failed call, JSON that does not parse).
IntentRaise == [intent |-> "<raise>", location |-> "", topic |-> ""]

IntentResults ==
  { [intent |-> "weather", location |-> "",      topic |-> ""],
    [intent |-> "weather", location |-> "Tokyo", topic |-> ""],
    [intent |-> "news",    location |-> "",      topic |-> "tech"],
    [intent |-> "news",    location |-> "",      topic |-> BadTopic],
    [intent |-> "general", location |-> "",      topic |-> ""] }

\* Where a handler is suspended (one value per awaited call).
AwaitPcs == {"detect", "w_http", "w_act", "n_http", "g_analyze", "g_gita", "g_chat"}

\* Outcomes of the awaited call at each position.
\*   detect     an IntentResult, or IntentRaise
\*   w_http     weather provider: "ok" | "fail"
\*   w_act      activity suggestion completion: "text" | "raise"
\*   n_http     headlines provider: "ok" | "fail"
\*   g_analyze  Promise.all of the analyzers: "low" | "notlow" | "raise"
\*   g_gita     getGitaSupport: "verse" | "none"
\*   g_chat     conversational completion: "text" | "raise"
Events(pc) ==
  CASE pc = "detect"    -> IntentResults \cup {IntentRaise}
    [] pc = "w_http"    -> {"ok", "fail"}
    [] pc = "w_act"     -> {"text", "raise"}
    [] pc = "n_http"    -> {"ok", "fail"}
    [] pc = "g_analyze" -> {"low", "notlow", "raise"}
    [] pc = "g_gita"    -> {"verse", "none"}
    [] pc = "g_chat"    -> {"text", "raise"}

\* Step_*: where the handler goes when the call awaited at pc resolves with ev:
\*   another AwaitPcs value   the next awaited call
\*   "finish"                 the strategy returned a reply string
\*   "touch_finish"           the same, after getSessionHistory(sessionId)
\*   "fail"                   an exception reached the handler's catch
\* Entering "g_chat" goes through getSessionHistory(sessionId).

\* part_002: detectIntent 197-221 never rejects (a rejected callGemini and an
\* unusable JSON both end in fallbackIntentDetection); handleWeather 225-276;
\* handleNews 287-328 (line 298 calls toLowerCase on `topic` outside any try);
\* handleGeneralResponse 363-398; analyzers 332-360.
Step_p2(pc, cfg, ev) ==
  CASE pc = "detect" ->
         ( CASE ev = IntentRaise -> "detect"
             [] ev.intent = "weather" ->
                  IF cfg.weatherKey /\ ev.location # "" THEN "w_http" ELSE "finish"
             [] ev.intent = "news" ->
                  IF ~cfg.newsKey THEN "finish"
                  ELSE IF ev.topic = BadTopic THEN "fail" ELSE "n_http"
             [] OTHER ->
                  IF cfg.geminiOff THEN "touch_finish" ELSE "g_analyze" )
    [] pc = "w_http"    -> IF ev = "ok" /\ ~cfg.geminiOff THEN "w_act" ELSE "finish"
    [] pc = "w_act"     -> "finish"
    [] pc = "n_http"    -> "finish"
    [] pc = "g_analyze" -> IF ev = "low" THEN "g_gita" ELSE "g_chat"
    [] pc = "g_gita"    -> IF ev = "verse" THEN "finish" ELSE "g_chat"
    [] pc = "g_chat"    -> "finish"

\* part_004: app.post('/chat') 171-227 classifies inline (178-183) inside the
\* handler's try; handleWeather 58-113; handleNews 116-142; the general branch
\* 191-216 awaits Promise.all([analyzeSarcasm, sentiment call]), reads
\* gita.sanskrit without a null check (202) and awaits the completion (206).
Step_p4(pc, cfg, ev) ==
  CASE pc = "detect" ->
         ( CASE ev = IntentRaise -> "fail"
             [] ev.intent = "weather" ->
                  IF cfg.weatherKey THEN "w_http" ELSE "finish"
             [] ev.intent = "news" ->
                  IF cfg.newsKey THEN "n_http" ELSE "finish"
             [] OTHER -> "g_analyze" )
    [] pc = "w_http"    -> IF ev = "ok" THEN "w_act" ELSE "finish"
    [] pc = "w_act"     -> "finish"
    [] pc = "n_http"    -> "finish"
    [] pc = "g_analyze" -> IF ev = "raise" THEN "fail"
                           ELSE IF ev = "low" THEN "g_gita" ELSE "g_chat"
    [] pc = "g_gita"    -> IF ev = "verse" THEN "finish" ELSE "fail"
    [] pc = "g_chat"    -> IF ev = "text" THEN "finish" ELSE "fail"

Step(v, pc, cfg, ev) ==
  IF v = "p2" THEN Step_p2(pc, cfg, ev) ELSE Step_p4(pc, cfg, ev)

\* Outcomes that cannot occur in a revision: part_002's detectIntent and
\* analyzers absorb every failure, and with DISABLE_GEMINI its classifier is
\* the regex fallback, which yields string topics only.
Possible(v, pc, cfg, ev) ==
  /\ ev \in Events(pc)
  /\ v = "p2" =>
       CASE pc = "detect"    -> /\ ev # IntentRaise
                                /\ cfg.geminiOff => ev.topic # BadTopic
         [] pc = "g_analyze" -> ev # "raise"
         [] OTHER            -> TRUE

\* The role given to the reply turn: part_002:428 'model', part_004:220 'assistant'.
ReplyRole(v) == IF v = "p2" THEN "model" ELSE "assistant"

\* Faulty variant of RecordExchange: the reply is recorded before the message.
RecordExchange_replyFirst(store, v, sid, n) ==
  updateSessionHistory(
    updateSessionHistory(store, sid, Turn(v, ReplyRole(v), ReplyOf(n))),
    sid, Turn(v, "user", MessageOf(n)))

\* Faulty variant of RecordExchange: the reply turn is not recorded.
RecordExchange_userOnly(store, v, sid, n) ==
  updateSessionHistory(store, sid, Turn(v, "user", MessageOf(n)))

\* part_002:426-428, part_004:219-220: the two updateSessionHistory calls.
RecordExchange(store, v, sid, n) ==
  updateSessionHistory(
    updateSessionHistory(store, sid, Turn(v, "user", MessageOf(n))),
    sid, Turn(v, ReplyRole(v), ReplyOf(n)))

LogExchange(log, v, sid, n) ==
  Logged(Logged(log, sid, Turn(v, "user", MessageOf(n))),
         sid, Turn(v, ReplyRole(v), ReplyOf(n)))

\* Process configurations: everything configured, or no provider key and
\* the completion backend switched off.
Configs ==
  { [weatherKey |-> TRUE,  newsKey |-> TRUE,  geminiOff |-> FALSE],
    [weatherKey |-> FALSE, newsKey |-> FALSE, geminiOff |-> TRUE] }

InFlight == Cardinality({r \in Slots : sreq[r].pc \notin {"idle", "done"}})

\* Request slots are interchangeable: a new request takes the lowest free one.
LowestFree(r) ==
  /\ sreq[r].pc \in {"idle", "done"}
  /\ \A q \in Slots : q < r => sreq[q].pc \notin {"idle", "done"}

InitSession ==
  /\ ssVariant \in SessionVariants
  /\ ssCfg \in Configs
  /\ sessionStore = EmptyStore
  /\ sreq = [r \in Slots |-> NoRequest]
  /\ turnLog = EmptyStore
  /\ served = <<>>
  /\ GeminiIdle
  /\ ServerIdle
  /\ ClassifierIdle
  /\ ExtractIdle
  /\ OutboundIdle
  /\ ConversationIdle

\* Faulty variant of ReceiveUpTo: the user turn is recorded when the request
\* arrives.
ReceiveUpTo_recordsFirst(r, provided, hasMessage, limit) ==
  /\ LowestFree(r)
  /\ hasMessage => Len(served) + InFlight < limit
  /\ sreq' = [sreq EXCEPT ![r] =
       [NoRequest EXCEPT !.pc = IF hasMessage THEN "detect" ELSE "done",
                         !.provided = provided,
                         !.sid = SessionIdOf(ssVariant, provided),
                         !.status = IF hasMessage THEN 0 ELSE 400]]
  /\ sessionStore' =
       updateSessionHistory(sessionStore, SessionIdOf(ssVariant, provided),
                            Turn(ssVariant, "user", MessageOf(Len(served) + 1)))
  /\ UNCHANGED <<ssVariant, ssCfg, turnLog, served>>
  /\ UNCHANGED <<cgVars, srvVars, clVars, exVars, obVars, cvVars>>

\* app.post('/chat'), up to its first await: read the body, default the
\* session id, reject a missing message with 400, start the classification.
ReceiveUpTo(r, provided, hasMessage, limit) ==
  /\ LowestFree(r)
  /\ IF hasMessage
       THEN /\ Len(served) + InFlight < limit
            /\ sreq' = [sreq EXCEPT ![r] =
                 [NoRequest EXCEPT !.pc = "detect", !.provided = provided,
                                   !.sid = SessionIdOf(ssVariant, provided)]]
       ELSE /\ sreq' = [sreq EXCEPT ![r] =
                 [NoRequest EXCEPT !.pc = "done", !.provided = provided,
                                   !.sid = SessionIdOf(ssVariant, provided),
                                   !.status = 400]]
  /\ UNCHANGED <<ssVariant, ssCfg, sessionStore, turnLog, served>>
  /\ UNCHANGED <<cgVars, srvVars, clVars, exVars, obVars, cvVars>>

Receive(r, provided, hasMessage) ==
  ReceiveUpTo(r, provided, hasMessage, MaxRequests)

\* The sessionId field of the success response: part_002:430 sends it,
\* part_004:221 sends { reply, intent } only.
ReportedSessionId(v, sid) == IF v = "p2" THEN sid ELSE "<undefined>"

\* The continuation of request r when the call it awaits at `pc` resolves
\* with ev, run to the handler's next await or to its response.
Resume(r, pc, ev) ==
  /\ sreq[r].pc = pc
  /\ Possible(ssVariant, pc, ssCfg, ev)
  /\ LET nxt == Step(ssVariant, pc, ssCfg, ev)
         q == sreq[r]
         n == Len(served) + 1
         intent == IF pc = "detect" THEN ev.intent ELSE q.intent
     IN CASE nxt = "fail" ->
               /\ sreq' = [sreq EXCEPT ![r] =
                            [q EXCEPT !.pc = "done", !.intent = intent, !.status = 500]]
               /\ UNCHANGED <<sessionStore, turnLog, served>>
          [] nxt \in {"finish", "touch_finish"} ->
               /\ sessionStore' = RecordExchange(
                    IF nxt = "touch_finish"
                      THEN getSessionHistory(sessionStore, q.sid) ELSE sessionStore,
                    ssVariant, q.sid, n)
               /\ turnLog' = LogExchange(turnLog, ssVariant, q.sid, n)
               /\ served' = Append(served, q.sid)
               /\ sreq' = [sreq EXCEPT ![r] =
                            [q EXCEPT !.pc = "done", !.intent = intent,
                                      !.status = 200,
                                      !.reported =
                                        ReportedSessionId(ssVariant, q.sid)]]
          [] nxt = "g_chat" ->
               /\ sessionStore' = getSessionHistory(sessionStore, q.sid)
               /\ sreq' = [sreq EXCEPT ![r] = [q EXCEPT !.pc = nxt, !.intent = intent]]
               /\ UNCHANGED <<turnLog, served>>
          [] OTHER ->
               /\ sreq' = [sreq EXCEPT ![r] = [q EXCEPT !.pc = nxt, !.intent = intent]]
               /\ UNCHANGED <<sessionStore, turnLog, served>>
  /\ UNCHANGED <<ssVariant, ssCfg>>
  /\ UNCHANGED <<cgVars, srvVars, clVars, exVars, obVars, cvVars>>

DetectIntentDone(r) == \E ev \in Events("detect") : Resume(r, "detect", ev)
WeatherHttpDone(r)  == \E ev \in Events("w_http") : Resume(r, "w_http", ev)
ActivitiesDone(r)   == \E ev \in Events("w_act") : Resume(r, "w_act", ev)
NewsHttpDone(r)     == \E ev \in Events("n_http") : Resume(r, "n_http", ev)
AnalyzersDone(r)    == \E ev \in Events("g_analyze") : Resume(r, "g_analyze", ev)
GitaDone(r)         == \E ev \in Events("g_gita") : Resume(r, "g_gita", ev)
ChatDone(r)         == \E ev \in Events("g_chat") : Resume(r, "g_chat", ev)

NextSession ==
  \E r \in Slots :
    \/ \E provided \in ProvidedSessionIds, hasMessage \in BOOLEAN :
         Receive(r, provided, hasMessage)
    \/ DetectIntentDone(r)
    \/ WeatherHttpDone(r)
    \/ ActivitiesDone(r)
    \/ NewsHttpDone(r)
    \/ AnalyzersDone(r)
    \/ GitaDone(r)
    \/ ChatDone(r)

SpecSession == InitSession /\ [][NextSession]_vars

\* The same handlers, with clients that also send an empty session id.
ReceiveAnyId(r) ==
  \E provided \in AllProvidedSessionIds, hasMessage \in BOOLEAN :
    ReceiveUpTo(r, provided, hasMessage, MaxShortRequests)

NextSessionIds ==
  \E r \in Slots :
    \/ ReceiveAnyId(r)
    \/ DetectIntentDone(r)
    \/ WeatherHttpDone(r)
    \/ ActivitiesDone(r)
    \/ NewsHttpDone(r)
    \/ AnalyzersDone(r)
    \/ GitaDone(r)
    \/ ChatDone(r)

SpecSessionIds == InitSession /\ [][NextSessionIds]_vars

(***************************************************************************)
(* Claims about the session memory and its handler (under SpecSession)     *)
(***************************************************************************)

SessionIds == {SessionIdOf(ssVariant, p) : p \in ProvidedSessionIds}

HistoryOf(store, sid) == IF sid \in DOMAIN store THEN store[sid] ELSE <<>>

\* C1 (the claim as stated): a request fails only for a missing message; a
\* request with a message always ends in a successful response (status 200
\* with reply and intent), never in the generic failure response (500).
C1_FailsOnlyOnMissingMessage ==
  \A r \in Slots :
    sreq[r].pc = "done" =>
      /\ sreq[r].status \in {200, 400}
      /\ sreq[r].status = 200 => sreq[r].intent # ""

\* C8: between any two operations on the session store, every session's
\* history holds at most 2 x MAX_HISTORY_TURNS entries; this includes the
\* store as it is after the first of a request's two updateSessionHistory
\* calls.
C8_HistoryBounded ==
  /\ \A sid \in DOMAIN sessionStore :
       Len(sessionStore[sid]) <= 2 * MAX_HISTORY_TURNS
  /\ \A sid \in SessionIds :
       LET t == Turn(ssVariant, "user", MessageOf(Len(served) + 1))
       IN Len(updateSessionHistory(sessionStore, sid, t)[sid])
            <= 2 * MAX_HISTORY_TURNS

C8_Witness ==
  \E sid \in DOMAIN sessionStore :
    /\ Len(sessionStore[sid]) = 2 * MAX_HISTORY_TURNS
    /\ Len(turnLog[sid]) > 2 * MAX_HISTORY_TURNS

\* C9: once 2 x MAX_HISTORY_TURNS + k turns (k >= 0) were appended to one
\* session id, its history is exactly the 2 x MAX_HISTORY_TURNS most recently
\* appended turns, in the order of appending.
C9_KeepsMostRecentInOrder ==
  \A sid \in DOMAIN turnLog :
    Len(turnLog[sid]) >= 2 * MAX_HISTORY_TURNS =>
      /\ sid \in DOMAIN sessionStore
      /\ Len(sessionStore[sid]) = 2 * MAX_HISTORY_TURNS
      /\ \A i \in 1..(2 * MAX_HISTORY_TURNS) :
           sessionStore[sid][i] =
             turnLog[sid][Len(turnLog[sid]) - 2 * MAX_HISTORY_TURNS + i]

C9_Witness ==
  \E sid \in DOMAIN turnLog :
    /\ Len(turnLog[sid]) = 2 * MAX_HISTORY_TURNS + 2
    /\ sessionStore[sid][1].text = MessageOf(2)

\* The turns of the exchanges 1..k recorded for sid, in recording order.
RECURSIVE ExchangesOf(_, _)
ExchangesOf(sid, k) ==
  IF k = 0 THEN <<>>
  ELSE IF served[k] = sid
    THEN ExchangesOf(sid, k - 1) \o
           << [role |-> "user", text |-> MessageOf(k)],
              [role |-> ReplyRole(ssVariant), text |-> ReplyOf(k)] >>
    ELSE ExchangesOf(sid, k - 1)

\* C10: whatever the interleaving of the requests of one session, every
\* recorded turn took effect exactly once: the session's history is the last
\* 2 x MAX_HISTORY_TURNS turns of the sequence of all turns recorded for it
\* (in recording order), without loss, duplication or a partial entry.
C10_AppendsAtomic ==
  \A sid \in SessionIds :
    LET all == ExchangesOf(sid, Len(served))
        h == HistoryOf(sessionStore, sid)
        keep == IF Len(all) <= 2 * MAX_HISTORY_TURNS
                  THEN Len(all) ELSE 2 * MAX_HISTORY_TURNS
    IN /\ Len(h) = keep
       /\ \A i \in 1..keep : h[i] = all[Len(all) - keep + i]
       /\ \A i, j \in 1..keep : h[i] = h[j] => i = j

\* Two requests of one session overlapped: the one in slot 1 has read the
\* session's history and still awaits its completion call when a later
\* request of the same session has recorded its exchange and evicted turns.
C10_Witness ==
  /\ sreq[1].pc = "g_chat"
  /\ sreq[2].pc = "done"
  /\ sreq[2].status = 200
  /\ sreq[2].sid = sreq[1].sid
  /\ Len(turnLog[sreq[1].sid]) > 2 * MAX_HISTORY_TURNS

\* Request r completes with a reply in this step.
Replies(r) ==
  /\ sreq[r].pc \in AwaitPcs
  /\ sreq'[r].pc = "done"
  /\ sreq'[r].status = 200

DefaultSessionId(v) == SessionIdOf(v, "absent")

\* C12 (as stated): a request whose session id is absent or empty is served
\* under the one shared default session, whose history exists from the first
\* reference on, and its success response reports that session id.
C12_AbsentOrEmptyUsesDefault ==
  \A r \in Slots :
    (sreq[r].pc # "idle" /\ sreq[r].status # 400
       /\ sreq[r].provided \in {"absent", ""}) =>
      /\ sreq[r].sid = DefaultSessionId(ssVariant)
      /\ sreq[r].pc = "g_chat" => sreq[r].sid \in DOMAIN sessionStore
      /\ (sreq[r].pc = "done" /\ sreq[r].status = 200) =>
           /\ sreq[r].sid \in DOMAIN sessionStore
           /\ sreq[r].reported = sreq[r].sid


(***************************************************************************)
(* The /chat handler of src/backend/server.js and of its earlier revisions *)
(* part_006 and part_005.  These revisions keep no session store: the      *)
(* caller sends the history with each request and the only state shared    *)
(* between requests is lastContextLocation.  A request runs synchronously  *)
(* from one await to the next; each action below is one such segment, so   *)
(* two requests interleave exactly at the awaits.                          *)
(***************************************************************************)

ServerVariants == {"server", "p6", "p5"}

\* Messages are sequences of words; <<>> is the empty string.
Messages ==
  { <<"weather", "in", "Tokyo">>,
    <<"latest", "news", "about", "tech">>,
    <<"i", "am", "so", "anxious">>,
    <<"write", "me", "a", "sad", "poem">>,
    <<"hello", "there">> }

\* The keywords that occur as substrings of a lower-cased word (the keyword
\* tests of the source are substring tests on the lower-cased message).
KeywordsIn(word) ==
  CASE word = "Tokyo"       -> {"tokyo"}
    [] word = "sunday"      -> {"sunday", "sun"}
    [] word = "temperature" -> {"temperature", "temp"}
    [] word = "headlines"   -> {"headlines", "headline"}
    [] word = "newsletter"  -> {"newsletter", "news"}
    [] OTHER                -> {word}

HasWord(m, words) == \E i \in 1..Len(m) : KeywordsIn(m[i]) \cap words # {}

\* server.js:122, part_006:112, part_005:83, part_002:167
weatherKeywords(v) ==
  CASE v = "p5" -> {"weather", "forecast", "temp", "rain", "snow", "storm",
                    "climate"}
    [] v = "p2" -> {"weather", "forecast", "temp", "temperature", "rain",
                    "snow", "storm", "climate", "alert", "alerts", "wind",
                    "humidity", "sun", "cloudy", "condition", "conditions"}
    [] OTHER    -> {"weather", "forecast", "temp", "rain", "snow", "storm",
                    "climate", "wind", "humidity"}

\* server.js:123, part_006:113, part_005:85, part_002:168
newsKeywords(v) ==
  CASE v = "p5" -> {"news", "headline", "article", "update"}
    [] v = "p2" -> {"news", "headline", "headlines", "article", "articles",
                    "update", "updates", "breaking", "latest", "today's",
                    "report", "current", "developments"}
    [] OTHER    -> {"news", "headline", "article", "update", "breaking",
                    "latest"}

\* server.js:290 (part_005:174 and part_006:281 agree with it on Messages)
distressKeywords == {"worried", "worry", "anxious", "sad", "depressed", "tired"}

\* server.js:292 (part_006:285 agrees with it on Messages)
creativeKeywords ==
  {"write", "essay", "story", "poem", "blog", "article", "code", "script"}

\* What the caller put in the "history" field of the body: nothing, an
\* array of turns, or a value that cannot be spread (null, a number, ...).
Histories == {"absent", "array", "null"}

\* The history as the strategies see it: a missing field is replaced by []
\* (parameter default at server.js:181/288, destructuring default at
\* part_005:195); null is not.
HistoryArg(history) == IF history = "absent" THEN "array" ELSE history

Iterable(history) == history # "null"

Truthy(x) == x \notin {"", Undefined, Null}

IsString(x) == x \notin {Undefined, Null, BadTopic}

\* String(x)
StringOf(x) ==
  IF x = Undefined THEN "undefined" ELSE IF x = Null THEN "null" ELSE x

\* The location the fallback classifier extracts.  part_005:80-81: the word
\* after the first in/for/at/of.  part_002:173-179: what its two regular
\* expressions yield, tabulated for the messages used (the first one matches
\* from the leftmost trigger, "weather" included, to the end of the text).
fallbackLocation(v, userMessage) ==
  IF v = "p5"
    THEN LET hits == {i \in 1..(Len(userMessage) - 1) :
                        userMessage[i] \in {"in", "for", "at", "of"}}
             first == CHOOSE i \in hits : \A j \in hits : i <= j
         IN IF hits = {} THEN "" ELSE userMessage[first + 1]
    ELSE CASE userMessage = <<"weather", "in", "Tokyo">>    -> "in Tokyo"
           [] userMessage = <<"weather", "news", "update">> -> "news update"
           [] OTHER                                         -> ""

\* part_002:185-191, tabulated in the same way.
fallbackTopic(v, userMessage) ==
  IF v # "p2" THEN ""
  ELSE CASE userMessage = <<"latest", "news", "about", "tech">> -> "news about tech"
         [] userMessage = <<"newsletter", "signup">>            -> "letter signup"
         [] OTHER                                               -> ""

\* Faulty variant of fallbackIntentDetection: news is tested first.
fallbackIntentDetection_newsFirst(v, userMessage) ==
  IF HasWord(userMessage, newsKeywords(v))
    THEN [intent |-> "news",
          location |-> IF v = "p2" THEN "" ELSE Undefined,
          topic |-> fallbackTopic(v, userMessage),
          activity |-> Undefined]
  ELSE IF HasWord(userMessage, weatherKeywords(v))
    THEN [intent |-> "weather",
          location |-> IF v \in {"p5", "p2"}
                         THEN fallbackLocation(v, userMessage) ELSE "",
          topic |-> IF v = "p2" THEN "" ELSE Undefined,
          activity |-> IF v = "p2" THEN Undefined ELSE ""]
  ELSE [intent |-> "general",
        location |-> IF v = "p2" THEN "" ELSE Undefined,
        topic |-> IF v = "p2" THEN "" ELSE Undefined,
        activity |-> Undefined]

\* server.js:120-128, part_006:110-118, part_005:77-89, part_002:165-195
fallbackIntentDetection(v, userMessage) ==
  IF HasWord(userMessage, weatherKeywords(v))
    THEN [intent |-> "weather",
          location |-> IF v \in {"p5", "p2"}
                         THEN fallbackLocation(v, userMessage) ELSE "",
          topic |-> IF v = "p2" THEN "" ELSE Undefined,
          activity |-> IF v = "p2" THEN Undefined ELSE ""]
  ELSE IF HasWord(userMessage, newsKeywords(v))
    THEN [intent |-> "news",
          location |-> IF v = "p2" THEN "" ELSE Undefined,
          topic |-> fallbackTopic(v, userMessage),
          activity |-> Undefined]
  ELSE [intent |-> "general",
        location |-> IF v = "p2" THEN "" ELSE Undefined,
        topic |-> IF v = "p2" THEN "" ELSE Undefined,
        activity |-> Undefined]

\* The classifier's answer after extractJson: a JSON object, or nothing (the
\* call raised or the text held no JSON).
NoParse ==
  [intent |-> Undefined, location |-> Undefined, topic |-> Undefined,
   activity |-> Undefined]

\* The completion call raised.
CallRaised ==
  [intent |-> "<raise>", location |-> Undefined, topic |-> Undefined,
   activity |-> Undefined]

\* A JSON object without an intent field.
NoIntentObject ==
  [intent |-> Undefined, location |-> "Pune", topic |-> Undefined,
   activity |-> Undefined]

ParsedIntents ==
  { [intent |-> "weather", location |-> "Tokyo", topic |-> "", activity |-> ""],
    [intent |-> "weather", location |-> "Pune", topic |-> "",
     activity |-> "fishing"],
    [intent |-> "weather", location |-> "", topic |-> "", activity |-> ""],
    [intent |-> "weather", location |-> "", topic |-> "",
     activity |-> "fishing"],
    [intent |-> "weather", location |-> Undefined, topic |-> Undefined,
     activity |-> Undefined],
    [intent |-> "news", location |-> "", topic |-> "tech", activity |-> ""],
    [intent |-> "news", location |-> "", topic |-> BadTopic, activity |-> ""],
    [intent |-> "general", location |-> "", topic |-> "", activity |-> ""],
    [intent |-> "general", location |-> "Pune", topic |-> "", activity |-> ""] }

\* String.prototype.toLowerCase on the intents the answers carry.
LowerCase(s) ==
  CASE s = "Weather" -> "weather"
    [] s = "NEWS"    -> "news"
    [] OTHER         -> s

\* `x ?? ''`
OrEmpty(x) == IF x \in {Undefined, Null} THEN "" ELSE x

\* detectIntent, given what the completion call and extractJson produced:
\* server.js:130-148 and part_006:120-138 return the object as it is when its
\* intent is truthy; part_005:91-102 returns any object; part_002:197-221
\* lower-cases the intent and defaults location and topic (a non-string
\* intent raises inside the try and ends in the fallback).
detectIntent(v, cfg, userMessage, parsed) ==
  IF cfg.geminiOff \/ parsed \in {NoParse, CallRaised}
    THEN fallbackIntentDetection(v, userMessage)
  ELSE IF v = "p5" THEN parsed
  ELSE IF ~Truthy(parsed.intent)
    THEN fallbackIntentDetection(v, userMessage)
  ELSE IF v = "p2"
    THEN IF IsString(parsed.intent)
           THEN [intent |-> LowerCase(parsed.intent),
                 location |-> OrEmpty(parsed.location),
                 topic |-> OrEmpty(parsed.topic),
                 activity |-> Undefined]
           ELSE fallbackIntentDetection(v, userMessage)
  ELSE parsed

ServerConfigs ==
  { [weatherKey |-> TRUE, newsKey |-> TRUE, geminiOff |-> FALSE],
    [weatherKey |-> TRUE, newsKey |-> TRUE, geminiOff |-> TRUE],
    [weatherKey |-> FALSE, newsKey |-> TRUE, geminiOff |-> FALSE],
    [weatherKey |-> TRUE, newsKey |-> FALSE, geminiOff |-> FALSE] }

\* res.json({ reply, intent, location, topic }).  Here and below, a local
\* that the rest of the handler no longer reads is reset to its initial
\* value.
Respond(q, reply) ==
  [q EXCEPT !.pc = "done", !.status = 200, !.reply = reply,
            !.message = <<>>, !.history = "array", !.activity = Undefined,
            !.pending = {}, !.lowMood = FALSE]

\* A strategy raised: the handler's catch answers 500.
Fail(q) ==
  [q EXCEPT !.pc = "done", !.status = 500, !.reply = "",
            !.message = <<>>, !.history = "array", !.activity = Undefined,
            !.pending = {}, !.lowMood = FALSE]

\* Faulty variant of remember: the first writer wins.
remember_keepFirst(last, location) ==
  IF Truthy(location) /\ IsString(location) /\ last = Null
    THEN location ELSE last

\* server.js:342, part_006:355-357, part_005:200
remember(last, location) ==
  IF Truthy(location) /\ IsString(location) THEN location ELSE last

\* Faulty variant of substitute: the remembered location is never used.
substitute_ownOnly(v, last, intent, activity, location) == location

\* server.js:343, part_005:201; part_006:358-360 substitutes only a set value.
substitute(v, last, intent, activity, location) ==
  IF ~Truthy(location) /\ (intent = "weather" \/ Truthy(activity))
    THEN IF v = "p6" /\ ~Truthy(last) THEN location ELSE last
    ELSE location

\* The q parameter sent to the weather provider; <<>> is the empty string.
\* server.js:184-197 and part_005:124-126: String(location || "") with
\* ", India" appended; part_006:176-183: String(location).
queryLocation(v, location) ==
  IF v = "p6"
    THEN IF location = "" THEN <<>> ELSE <<StringOf(location)>>
    ELSE IF Truthy(location) THEN <<location, "India">> ELSE <<>>

\* The two fixed replies of handleWeather's guards.
WeatherNotConfigured(v) ==
  IF v = "p5" THEN "Weather service not configured."
  ELSE "Weather service is not configured."

LocationPrompt(v) ==
  IF v = "p5" THEN "Please provide a valid location (e.g. Weather in Pune)."
  ELSE "Please provide a valid location."

\* handleWeather up to its first await.  It is not given the message, and it
\* reads the history only for the activity advice (part_005: never).
handleWeather(v, cfg, q) ==
  IF ~cfg.weatherKey THEN Respond(q, WeatherNotConfigured(v))
  ELSE IF queryLocation(v, q.location) = <<>>
    THEN Respond(q, LocationPrompt(v))
  ELSE [q EXCEPT !.pc = "w_http", !.message = <<>>,
                 !.history = IF Truthy(q.activity) /\ v # "p5"
                               THEN q.history ELSE "array"]

handleNews_keyAfterSummary(v, cfg, q) ==
  [q EXCEPT !.pc = IF v = "p5" THEN "n_http" ELSE "n_summary",
            !.message = <<>>, !.history = "array"]

\* handleNews up to its first await; it is not given the history.
\* part_005:154-160 goes to the headlines provider at once.
handleNews(v, cfg, q) ==
  IF ~cfg.newsKey THEN Respond(q, "News service is not configured.")
  ELSE [q EXCEPT !.pc = IF v = "p5" THEN "n_http" ELSE "n_summary",
                 !.message = <<>>, !.history = "array"]

\* handleGeneralResponse from the conversation build to the chat call: the
\* spread of history stands outside the try of the chat call.
BuildConversation(q) ==
  IF Iterable(q.history)
    THEN [q EXCEPT !.pc = "g_chat", !.message = <<>>, !.history = "array",
                   !.lowMood = FALSE]
    ELSE Fail(q)

\* server.js:309, part_006:308; part_005:178 has no creative-mode gate.
AfterAnalysis(v, q) ==
  IF q.lowMood /\ (v = "p5" \/ ~HasWord(q.message, creativeKeywords))
    THEN [q EXCEPT !.pc = "g_gita", !.message = <<>>, !.lowMood = FALSE]
    ELSE BuildConversation(q)

\* Faulty variant of handleGeneralResponse: the sentiment analyzer is asked
\* whatever the keyword tests say.
handleGeneralResponse_alwaysSentiment(v, cfg, q) ==
  LET q1 == [q EXCEPT !.lowMood = HasWord(q.message, distressKeywords)]
  IN IF v = "p5"
       THEN [q1 EXCEPT !.pc = "g_analyze", !.pending = {"sarcasm"}]
     ELSE IF ~cfg.geminiOff
       THEN [q1 EXCEPT !.pc = "g_analyze",
                       !.pending = {"sarcasm", "sentiment"}]
       ELSE AfterAnalysis(v, q1)

\* handleGeneralResponse up to its first await.  part_005:173-176 awaits the
\* sarcasm analyzer alone, whatever DISABLE_GEMINI says.
handleGeneralResponse(v, cfg, q) ==
  LET hasDistressKeyword == HasWord(q.message, distressKeywords)
      isCreativeMode == HasWord(q.message, creativeKeywords)
      q1 == [q EXCEPT !.lowMood = hasDistressKeyword]
  IN IF v = "p5"
       THEN [q1 EXCEPT !.pc = "g_analyze", !.pending = {"sarcasm"}]
     ELSE IF ~cfg.geminiOff
       THEN [q1 EXCEPT !.pc = "g_analyze",
                       !.pending =
                         IF ~hasDistressKeyword /\ ~isCreativeMode
                           THEN {"sarcasm", "sentiment"}
                           ELSE {"sarcasm"}]
       ELSE AfterAnalysis(v, q1)

\* Faulty variant of Dispatch: a news intent is handed to the General
\* strategy.
Dispatch_newsAsGeneral(v, cfg, last, q0, d) ==
  LET location == substitute(v, remember(last, d.location), d.intent,
                             d.activity, d.location)
      q == [q0 EXCEPT !.intent = d.intent, !.location = location,
                      !.topic = d.topic, !.activity = d.activity]
  IN IF d.intent = "weather" THEN handleWeather(v, cfg, q)
     ELSE handleGeneralResponse(v, cfg, q)

\* server.js:340-348: the handler from the classifier's result d to the
\* first await of the strategy it selects (or to the strategy's return).
Dispatch(v, cfg, last, q0, d) ==
  LET location == substitute(v, remember(last, d.location), d.intent,
                             d.activity, d.location)
      q == [q0 EXCEPT !.intent = d.intent, !.location = location,
                      !.topic = d.topic, !.activity = d.activity]
  IN IF d.intent = "weather" THEN handleWeather(v, cfg, q)
     ELSE IF d.intent = "news" THEN handleNews(v, cfg, q)
     ELSE handleGeneralResponse(v, cfg, q)

ServerInFlight(r) == req[r].pc \notin {"idle", "done"}

ServerLowestFree(r) == \A k \in Slots : k < r => ServerInFlight(k)

\* The earlier revisions run with every key set.
Init ==
  /\ srvVariant \in ServerVariants
  /\ config \in ServerConfigs
  /\ srvVariant # "server" => (config.weatherKey /\ config.newsKey)
  /\ lastContextLocation = Null
  /\ lastResolved = Null
  /\ req = [r \in Slots |-> NoServerRequest]
  /\ GeminiIdle
  /\ SessionIdle
  /\ ClassifierIdle
  /\ ExtractIdle
  /\ OutboundIdle
  /\ ConversationIdle

\* server.js:334-340 - a request arrives; an empty or absent message is
\* answered 400 at once, anything else starts the classifier.
Chat_receive(r, message, history) ==
  /\ ~ServerInFlight(r)
  /\ ServerLowestFree(r)
  /\ req' = [req EXCEPT ![r] =
       IF message = <<>>
         THEN [NoServerRequest EXCEPT !.pc = "done", !.status = 400]
         ELSE [NoServerRequest EXCEPT !.pc = "detect", !.message = message,
                                      !.history = HistoryArg(history)]]
  /\ UNCHANGED <<srvVariant, config, lastContextLocation, lastResolved>>
  /\ UNCHANGED <<cgVars, ssVars, clVars, exVars, obVars, cvVars>>

\* server.js:340-348 - the classifier settles; the handler updates the
\* remembered location, substitutes it, and enters the strategy.
\* lastResolved is a history variable: the latest non-empty location that
\* any classification carried.
Chat_detectIntent(r, parsed) ==
  /\ req[r].pc = "detect"
  /\ config.geminiOff => parsed = NoParse
  /\ LET d == detectIntent(srvVariant, config, req[r].message, parsed)
     IN /\ lastContextLocation' = remember(lastContextLocation, d.location)
        /\ lastResolved' = IF Truthy(d.location) THEN d.location
                                                 ELSE lastResolved
        /\ req' = [req EXCEPT ![r] =
             Dispatch(srvVariant, config, lastContextLocation, req[r], d)]
  /\ UNCHANGED <<srvVariant, config>>
  /\ UNCHANGED <<cgVars, ssVars, clVars, exVars, obVars, cvVars>>

\* server.js:200-236 - the weather provider answers.  With an activity,
\* server.js and part_006 build the advice conversation from the history
\* inside the outer try; part_005:145 sends a plain prompt.
Chat_weatherHttp(r, ev) ==
  /\ req[r].pc = "w_http"
  /\ req' = [req EXCEPT ![r] =
       IF ev # "ok"
         THEN Respond(@, "I couldn't find precise weather.")
       ELSE IF ~Truthy(@.activity)
         THEN Respond(@, "weather report")
       ELSE IF ~Iterable(@.history)
         THEN Respond(@, "I couldn't find precise weather.")
       ELSE [@ EXCEPT !.pc = "w_advice"]]
  /\ UNCHANGED <<srvVariant, config, lastContextLocation, lastResolved>>
  /\ UNCHANGED <<cgVars, ssVars, clVars, exVars, obVars, cvVars>>

\* server.js:230-236 - the activity advice call settles.  server.js and
\* part_006:225-231 catch its failure; in part_005:144-149 it is caught by
\* the strategy's outer catch.
Chat_weatherAdvice(r, ev) ==
  /\ req[r].pc = "w_advice"
  /\ req' = [req EXCEPT ![r] =
       IF ev = "text"
         THEN Respond(@, "weather report + activity outlook")
       ELSE IF srvVariant = "p5"
         THEN Respond(@, "I couldn't find precise weather.")
       ELSE Respond(@, "weather report + (Could not generate specific advice)")]
  /\ UNCHANGED <<srvVariant, config, lastContextLocation, lastResolved>>
  /\ UNCHANGED <<cgVars, ssVars, clVars, exVars, obVars, cvVars>>

\* server.js:252-262 - the news summary call settles.
Chat_newsSummary(r, ev) ==
  /\ req[r].pc = "n_summary"
  /\ req' = [req EXCEPT ![r] =
       IF ev = "text" THEN Respond(@, "news summary")
       ELSE IF Truthy(@.topic) /\ ~IsString(@.topic) THEN Fail(@)
       ELSE [@ EXCEPT !.pc = "n_http"]]
  /\ UNCHANGED <<srvVariant, config, lastContextLocation, lastResolved>>
  /\ UNCHANGED <<cgVars, ssVars, clVars, exVars, obVars, cvVars>>

\* server.js:264-285 - the news provider answers.
Chat_newsHttp(r, ev) ==
  /\ req[r].pc = "n_http"
  /\ req' = [req EXCEPT ![r] =
       IF ev = "articles" THEN Respond(@, "headlines")
       ELSE IF ev = "empty" THEN Respond(@, "No recent news articles found.")
       ELSE Respond(@, "Sorry, I couldn't fetch the news right now.")]
  /\ UNCHANGED <<srvVariant, config, lastContextLocation, lastResolved>>
  /\ UNCHANGED <<cgVars, ssVars, clVars, exVars, obVars, cvVars>>

\* server.js:299-317 - one of the analyzers settles; when the last one has,
\* Promise.all resolves and the strategy goes on.  The sarcasm result only
\* words the system instruction of the chat call, which is not modelled.  part_005:175-176 starts
\* the sentiment analyzer only after the sarcasm analyzer has settled, and
\* only for a message without a distress keyword.
Chat_analyzer(r, a, result) ==
  /\ req[r].pc = "g_analyze"
  /\ a \in req[r].pending
  /\ LET q == req[r]
         q1 == IF a = "sarcasm"
                 THEN q
                 ELSE [q EXCEPT !.lowMood =
                         IF result = "null" THEN q.lowMood ELSE result = "yes"]
         q2 == [q1 EXCEPT !.pending =
                  IF srvVariant = "p5" /\ a = "sarcasm" /\ ~q.lowMood
                    THEN {"sentiment"} ELSE q.pending \ {a}]
     IN req' = [req EXCEPT ![r] =
                  IF q2.pending = {} THEN AfterAnalysis(srvVariant, q2) ELSE q2]
  /\ UNCHANGED <<srvVariant, config, lastContextLocation, lastResolved>>
  /\ UNCHANGED <<cgVars, ssVars, clVars, exVars, obVars, cvVars>>

\* server.js:310-317 - the verse call settles.
Chat_gitaSupport(r, ev) ==
  /\ req[r].pc = "g_gita"
  /\ req' = [req EXCEPT ![r] =
       IF ev = "verse" THEN Respond(@, "Gita verse")
       ELSE BuildConversation(@)]
  /\ UNCHANGED <<srvVariant, config, lastContextLocation, lastResolved>>
  /\ UNCHANGED <<cgVars, ssVars, clVars, exVars, obVars, cvVars>>

\* server.js:329-331 - the chat call settles.
Chat_generalChat(r, ev) ==
  /\ req[r].pc = "g_chat"
  /\ req' = [req EXCEPT ![r] =
       IF ev = "text" THEN Respond(@, "chat text")
       ELSE Respond(@, "I'm here if you need to talk.")]
  /\ UNCHANGED <<srvVariant, config, lastContextLocation, lastResolved>>
  /\ UNCHANGED <<cgVars, ssVars, clVars, exVars, obVars, cvVars>>

Next ==
  \E r \in Slots :
    \/ \E message \in Messages \cup {<<>>}, history \in Histories :
         Chat_receive(r, message, history)
    \/ \E parsed \in ParsedIntents \cup {NoParse, NoIntentObject} :
         Chat_detectIntent(r, parsed)
    \/ \E ev \in {"ok", "malformed", "fail"} : Chat_weatherHttp(r, ev)
    \/ \E ev \in {"text", "raise"} : Chat_weatherAdvice(r, ev)
    \/ \E ev \in {"text", "refusal", "raise"} : Chat_newsSummary(r, ev)
    \/ \E ev \in {"articles", "empty", "malformed", "fail"} :
         Chat_newsHttp(r, ev)
    \/ \E a \in {"sarcasm", "sentiment"}, result \in {"yes", "no", "null"} :
         Chat_analyzer(r, a, result)
    \/ \E ev \in {"verse", "null"} : Chat_gitaSupport(r, ev)
    \/ \E ev \in {"text", "raise"} : Chat_generalChat(r, ev)

Spec == Init /\ [][Next]_vars


(***************************************************************************)
(* detectIntent on its own: one call, for each revision of it, each        *)
(* message and each answer of the completion backend.                      *)
(***************************************************************************)

ClassifierVariants == {"server", "p6", "p5", "p2"}

ClassifierMessages ==
  Messages \cup { <<"weather", "news", "update">>,
                  <<"see", "you", "sunday">>,
                  <<"newsletter", "signup">> }

\* Answers whose intent is not one of the three lower-case names.
OddAnswers ==
  { [intent |-> "", location |-> "Pune", topic |-> "", activity |-> ""],
    [intent |-> "Weather", location |-> "Pune", topic |-> Undefined,
     activity |-> Undefined],
    [intent |-> "sports", location |-> "", topic |-> "", activity |-> ""],
    [intent |-> BadTopic, location |-> "", topic |-> "", activity |-> ""] }

ClassifierAnswers ==
  ParsedIntents \cup OddAnswers \cup {NoParse, CallRaised, NoIntentObject}

InitClassifier ==
  /\ clVariant \in ClassifierVariants
  /\ clOff \in BOOLEAN
  /\ clMessage \in ClassifierMessages
  /\ clPc = "start"
  /\ clAnswer = NoParse
  /\ clResult = NoParse
  /\ GeminiIdle
  /\ SessionIdle
  /\ ServerIdle
  /\ ExtractIdle
  /\ OutboundIdle
  /\ ConversationIdle

\* detectIntent is called: with DISABLE_GEMINI it returns the fallback's
\* result at once, otherwise it awaits the completion call.
DetectIntentCall ==
  /\ clPc = "start"
  /\ IF clOff
       THEN /\ clPc' = "done"
            /\ clResult' = detectIntent(clVariant, [geminiOff |-> TRUE],
                                        clMessage, NoParse)
       ELSE /\ clPc' = "await"
            /\ UNCHANGED clResult
  /\ UNCHANGED <<clVariant, clOff, clMessage, clAnswer>>
  /\ UNCHANGED <<cgVars, ssVars, srvVars, exVars, obVars, cvVars>>

\* The completion call settles and detectIntent returns.
DetectIntentReturn(parsed) ==
  /\ clPc = "await"
  /\ clPc' = "done"
  /\ clAnswer' = parsed
  /\ clResult' = detectIntent(clVariant, [geminiOff |-> FALSE], clMessage,
                              parsed)
  /\ UNCHANGED <<clVariant, clOff, clMessage>>
  /\ UNCHANGED <<cgVars, ssVars, srvVars, exVars, obVars, cvVars>>

NextClassifier ==
  \/ DetectIntentCall
  \/ \E parsed \in ClassifierAnswers : DetectIntentReturn(parsed)

SpecClassifier == InitClassifier /\ [][NextClassifier]_vars

----------------------------------------------------------------------------
(* Claims about the strategies of src/backend/server.js *)

\* C2 (as stated): the weather, news and general strategies never raise to
\* the dispatcher - whatever went wrong inside, every dispatched request is
\* answered with a reply text, so no request with a message ends in 500.
C2_StrategiesNeverRaise ==
  \A r \in Slots :
    (req[r].pc = "done" /\ Truthy(req[r].intent)) =>
      (req[r].status = 200 /\ req[r].reply # "")

ResumesWith(r, parsed) ==
  /\ req[r].pc = "detect"
  /\ config.geminiOff => parsed = NoParse
  /\ LET d == detectIntent(srvVariant, config, req[r].message, parsed)
     IN /\ req'[r] = Dispatch(srvVariant, config, lastContextLocation, req[r], d)
        /\ lastContextLocation' = remember(lastContextLocation, d.location)

C15_NoLocationPromptsWithoutProviderCall ==
  [][\A r \in Slots, parsed \in ParsedIntents \cup {NoParse, NoIntentObject} :
       ResumesWith(r, parsed) =>
         LET d == detectIntent(srvVariant, config, req[r].message, parsed)
         IN (/\ d.intent = "weather"
             /\ d.location \in {"", Undefined, Null}
             /\ lastContextLocation = Null
             /\ config.weatherKey) =>
              /\ req'[r].pc = "done"
              /\ req'[r].status = 200
              /\ req'[r].reply = LocationPrompt(srvVariant)]_vars

\* C16 (as stated): when the weather provider call succeeded and the
\* activity-advice completion call then settles, with a text or with a
\* failure, the reply carries the weather report built from the provider
\* data; it is never the apology message and never an error.
C16_AdviceFailureKeepsReport ==
  [][\A r \in Slots :
       (req[r].pc = "w_advice" /\ req'[r] # req[r]) =>
         /\ req'[r].pc = "done"
         /\ req'[r].status = 200
         /\ req'[r].reply \in
              {"weather report + activity outlook",
               "weather report + (Could not generate specific advice)"}]_vars

\* The configuration with both provider credentials present and the rest
\* as it is.
WithBothKeys(cfg) == [cfg EXCEPT !.weatherKey = TRUE, !.newsKey = TRUE]

\* C17: with the weather key (news key) absent, a request routed to the
\* weather (news) strategy is answered at once with the fixed
\* not-configured message, and no request is ever waiting on that
\* provider or on a completion call made by that strategy; a request routed
\* to any other strategy proceeds exactly as it would with both keys present.
C17_MissingKeyDegradesOneStrategy ==
  /\ [](\A r \in Slots :
          /\ ~config.weatherKey => req[r].pc \notin {"w_http", "w_advice"}
          /\ ~config.newsKey => req[r].pc \notin {"n_summary", "n_http"})
  /\ [][\A r \in Slots, parsed \in ParsedIntents \cup {NoParse, NoIntentObject} :
         ResumesWith(r, parsed) =>
           LET d == detectIntent(srvVariant, config, req[r].message, parsed)
               missing == IF d.intent = "weather" THEN ~config.weatherKey
                          ELSE IF d.intent = "news" THEN ~config.newsKey
                          ELSE FALSE
           IN IF missing
                THEN /\ req'[r].pc = "done"
                     /\ req'[r].status = 200
                     /\ req'[r].reply =
                          IF d.intent = "weather"
                            THEN "Weather service is not configured."
                            ELSE "News service is not configured."
                ELSE req'[r] = Dispatch(srvVariant, WithBothKeys(config),
                                        lastContextLocation, req[r], d)]_vars

\* The weather key is absent: the weather request of slot 1 got the fixed
\* message while the news request of slot 2 is being served.
C17_Witness ==
  /\ ~config.weatherKey
  /\ req[1].pc = "done" /\ req[1].intent = "weather"
  /\ req[1].reply = "Weather service is not configured."
  /\ req[2].pc = "n_http" /\ req[2].intent = "news"

----------------------------------------------------------------------------
(* Claims about the classifier *)

\* C18 (as stated): detectIntent returns the result of the fallback
\* classifier for the message whenever the primary path is disabled by
\* configuration, the completion call raised, no object was extracted, or
\* the extracted object has no non-empty intent field.
C18_FallbackWhenNoUsableIntent ==
  (/\ clPc = "done"
   /\ \/ clOff
      \/ clAnswer \in {NoParse, CallRaised}
      \/ ~Truthy(clAnswer.intent)) =>
    clResult = fallbackIntentDetection(clVariant, clMessage)

\* C19: whenever detectIntent answers through the fallback classifier, the
\* intent is weather if the lower-cased message contains a weather keyword
\* (also when it contains a news keyword too), news if it contains a news
\* keyword and no weather keyword, and general otherwise.
C19_FallbackKeywordPriority ==
  (clPc = "done" /\ (clOff \/ clAnswer \in {NoParse, CallRaised})) =>
    clResult.intent =
      IF HasWord(clMessage, weatherKeywords(clVariant)) THEN "weather"
      ELSE IF HasWord(clMessage, newsKeywords(clVariant)) THEN "news"
      ELSE "general"

\* The completion call raised for a message with a weather keyword and two
\* news keywords; the fallback classified it as weather.
C19_Witness ==
  /\ clPc = "done" /\ ~clOff /\ clAnswer = CallRaised
  /\ clMessage = <<"weather", "news", "update">>
  /\ HasWord(clMessage, newsKeywords(clVariant))
  /\ clResult.intent = "weather"

\* C20 (as stated): every result detectIntent returns, through the primary
\* path or the fallback, has an intent that is one of weather, news and
\* general, and has location, topic and activity present as strings.
C20_IntentResultWellFormed ==
  clPc = "done" =>
    /\ clResult.intent \in {"weather", "news", "general"}
    /\ IsString(clResult.location)
    /\ IsString(clResult.topic)
    /\ IsString(clResult.activity)

----------------------------------------------------------------------------
(* Claims about the completion backend switch and the general strategy *)

\* The request in slot r is waiting for a completion call to settle.
AwaitsCompletion(r) ==
  req[r].pc \in {"g_analyze", "g_gita", "g_chat", "w_advice", "n_summary"}

\* C21 (as stated): with DISABLE_GEMINI set, no request of
\* src/backend/server.js issues a call to the completion backend - no
\* analyzer call, no spiritual-support call, no activity-advice call, nor
\* any other completion call.
C21_DisabledBackendNeverCalled ==
  (srvVariant = "server" /\ config.geminiOff) =>
    \A r \in Slots : ~AwaitsCompletion(r)

\* C22 (as stated): the analyzers fail soft - whatever the analyzers'
\* completion calls did (answered, raised, produced nothing parseable), the
\* error does not propagate: the handler resumes from the analysis without
\* failing the request.
C22_AnalyzersFailSoft ==
  [][\A r \in Slots :
       (sreq[r].pc = "g_analyze" /\ sreq'[r] # sreq[r]) =>
         /\ sreq'[r].status # 500
         /\ sreq'[r].pc \in {"g_gita", "g_chat"}]_vars

\* C23 (as stated): when low mood was detected and the spiritual-support
\* call raises or yields no parseable object, the request falls through to
\* the conversational call; together with the verse reply, the step that
\* resumes from the spiritual-support call therefore either finishes the
\* request with status 200 or issues the conversational call, and never
\* fails the request.
C23_GitaFailureFallsThrough ==
  [][\A r \in Slots :
       (sreq[r].pc = "g_gita" /\ sreq'[r] # sreq[r]) =>
         \/ sreq'[r].pc = "g_chat"
         \/ sreq'[r].pc = "done" /\ sreq'[r].status = 200]_vars

\* C24 (as stated): a message that matches the creative-content keyword
\* gate is never answered by the spiritual-support path - no request with
\* such a message issues the spiritual-support call, whatever its distress
\* keywords and whatever the Sentiment analyzer reports.
C24_CreativeSuppressesDistress ==
  [][\A r \in Slots :
       (req'[r].pc = "g_gita" /\ req[r].pc # "g_gita") =>
         ~HasWord(req[r].message, creativeKeywords)]_vars

(***************************************************************************)
(* extractJson on its own: one call, for each revision of it and each     *)
(* text.  A text is a sequence of tokens: "w" a word of prose, " " white   *)
(* space, "{" and "}" braces, "k" a member ("a": 1), "7" a number, and the *)
(* two fence marks, "<fence json>" for the opening one with its language   *)
(* tag and "<fence>" for three bare backquotes.                            *)
(***************************************************************************)

\* server.js:53-64 (part_002:80-95 and part_006:54-65 return the same
\* values), part_005:33-38
ExtractVariants == {"server", "p5"}

MaxTextLen == 5

Tokens == {"w", " ", "{", "}", "k", "7", "<fence json>", "<fence>"}

Texts == UNION {[1..n -> Tokens] : n \in 0..MaxTextLen}

NullText == [isNull |-> TRUE, tokens |-> <<>>]

ReturnsNull == [kind |-> "null", value |-> <<>>]

SetMin(S) == CHOOSE x \in S : \A y \in S : x <= y

\* String.prototype.trim
trim(t) ==
  LET solid == {i \in 1..Len(t) : t[i] # " "}
  IN IF solid = {} THEN <<>> ELSE SubSeq(t, SetMin(solid), SetMax(solid))

IsSolid(token) == token # " "

\* JSON.parse: white space between tokens is insignificant; a number and an
\* object with at most one member are the well-formed values, and the value
\* is the text without its white space.  Anything else is a SyntaxError.
JSONparse(t) ==
  LET c == SelectSeq(t, IsSolid)
  IN IF \/ c = <<"7">>
        \/ c = <<"{", "}">>
        \/ c = <<"{", "k", "}">>
       THEN [kind |-> "value", value |-> c]
       ELSE [kind |-> "raise", value |-> <<>>]

\* Where the closing fence of the pattern can match after position i: at a
\* closing mark, or at the first three characters of another opening mark.
ClosersAfter(t, i) == {j \in (i + 1)..Len(t) : t[j] \in {"<fence>", "<fence json>"}}

\* text.match(fenced block | brace span), server.js:55: the leftmost
\* position at which one of the two alternatives matches.  The first captures
\* lazily up to the nearest closing mark, without the white space around;
\* the second captures greedily from a "{" to the last "}" of the text.
match(t) ==
  LET fenceAt(i) == t[i] = "<fence json>" /\ ClosersAfter(t, i) # {}
      closingBraces(i) == {j \in (i + 1)..Len(t) : t[j] = "}"}
      braceAt(i) == t[i] = "{" /\ closingBraces(i) # {}
      hits == {i \in 1..Len(t) : fenceAt(i) \/ braceAt(i)}
      i == SetMin(hits)
  IN IF hits = {} THEN [found |-> FALSE, group |-> 0, captured |-> <<>>]
     ELSE IF fenceAt(i)
       THEN [found |-> TRUE, group |-> 1,
             captured |-> trim(SubSeq(t, i + 1, SetMin(ClosersAfter(t, i)) - 1))]
       ELSE [found |-> TRUE, group |-> 2,
             captured |-> SubSeq(t, i, SetMax(closingBraces(i)))]

\* try { return JSON.parse(jsonString.trim()) } catch { return null }
parseOrNull(jsonString) ==
  LET r == JSONparse(trim(jsonString))
  IN IF r.kind = "raise" THEN ReturnsNull ELSE r

\* extractJson.  An empty first capture makes jsonMatch[1] || jsonMatch[2]
\* undefined, and undefined.trim() raises inside the try.  Without a match
\* part_005:36 parses the whole text.
extractJson(v, text) ==
  IF text.isNull \/ text.tokens = <<>> THEN ReturnsNull
  ELSE LET jsonMatch == match(text.tokens)
       IN IF ~jsonMatch.found
            THEN IF v = "p5" THEN parseOrNull(text.tokens) ELSE ReturnsNull
          ELSE IF jsonMatch.captured = <<>> THEN ReturnsNull
          ELSE parseOrNull(jsonMatch.captured)

InitExtract ==
  /\ exVariant \in ExtractVariants
  /\ exText \in {NullText} \cup {[isNull |-> FALSE, tokens |-> t] : t \in Texts}
  /\ exPc = "start"
  /\ exResult = [kind |-> "none", value |-> <<>>]
  /\ GeminiIdle
  /\ SessionIdle
  /\ ServerIdle
  /\ ClassifierIdle
  /\ OutboundIdle
  /\ ConversationIdle

ExtractJsonCall ==
  /\ exPc = "start"
  /\ exPc' = "done"
  /\ exResult' = extractJson(exVariant, exText)
  /\ UNCHANGED <<exVariant, exText>>
  /\ UNCHANGED <<cgVars, ssVars, srvVars, clVars, obVars, cvVars>>

NextExtract == ExtractJsonCall

SpecExtract == InitExtract /\ [][NextExtract]_vars

----------------------------------------------------------------------------
(* Claims about extractJson *)

HasFencedBlock(t) ==
  \E i \in 1..Len(t), j \in 1..Len(t) :
    i < j /\ t[i] = "<fence json>" /\ t[j] \in {"<fence>", "<fence json>"}

HasBraceSpan(t) ==
  \E i \in 1..Len(t), j \in 1..Len(t) : i < j /\ t[i] = "{" /\ t[j] = "}"

\* C25 (as stated): extractJson never raises; it returns null for a null
\* or empty text and for a text with no fenced block and no brace span, and
\* whatever it returns otherwise is null or a parsed value.
C25_ExtractJsonNullOnNoObject ==
  exPc = "done" =>
    /\ exResult.kind \in {"null", "value"}
    /\ (exText.isNull \/ exText.tokens = <<>>) => exResult = ReturnsNull
    /\ (~HasFencedBlock(exText.tokens) /\ ~HasBraceSpan(exText.tokens)) =>
         exResult = ReturnsNull

JsonObjects == { <<"{", "}">>, <<"{", "k", "}">> }

ProseTokens == {"w", " ", "{", "}"}

\* The text is object in a fenced json block, with prose (which may hold
\* braces) before and after the block.
FencedWithProse(t, object) ==
  \E i \in 1..Len(t), j \in 1..Len(t) :
    /\ i < j
    /\ t[i] = "<fence json>" /\ t[j] = "<fence>"
    /\ trim(SubSeq(t, i + 1, j - 1)) = object
    /\ \A k \in 1..Len(t) : (k < i \/ k > j) => t[k] \in ProseTokens

\* C26 (as stated): for every well-formed object placed in a fenced json
\* block with arbitrary prose before and after it, prose with braces
\* included, extractJson returns a value equal to that object.
C26_FencedObjectRoundTrips ==
  exPc = "done" =>
    \A object \in JsonObjects :
      FencedWithProse(exText.tokens, object) =>
        exResult = [kind |-> "value", value |-> object]

----------------------------------------------------------------------------
(* Claims about the news strategy *)

\* C27 (as stated): a news-intent request served with the news credential
\* configured is answered from the headlines provider: its reply is the
\* numbered list of headlines, the nothing-found message, or the apology
\* message.
C27_NewsReplyForms ==
  \A r \in Slots :
    (req[r].pc = "done" /\ req[r].intent = "news" /\ config.newsKey) =>
      /\ req[r].status = 200
      /\ req[r].reply \in {"headlines", "No recent news articles found.",
                            "Sorry, I couldn't fetch the news right now."}

----------------------------------------------------------------------------
(* Further claims about callGemini (checked under SpecGemini) *)

\* C28 (as stated): within one call of callGemini (src/backend/server.js,
\* part_002) no model identifier is called more than once, also when the
\* preferred model equals one of the fixed fallbacks.
C28_NoModelCalledTwice ==
  cgVariant \in {"server", "p2"} =>
    \A i \in 1..Len(cgCalls), j \in 1..Len(cgCalls) :
      i < j => cgCalls[i].model # cgCalls[j].model

\* The transport faults that are neither rate-limit, model-unavailable or
\* overloaded, nor bad-request.
OtherFaults == {"timeout", "neterr", "500", "emptytext", "nocand"}

\* C29 (as stated): in src/backend/server.js and part_006, when a candidate
\* that is not the last of the list fails with a timeout, a network error,
\* an HTTP 500 or an empty payload, the fault is recorded as the last error
\* and the loop goes on to the next candidate.
C29_OtherFaultContinues ==
  (cgVariant \in {"server", "p6"} /\ cgCalls # <<>>) =>
    LET k == Len(cgCalls)
    IN (cgCalls[k].outcome \in OtherFaults /\ k < Len(CandidateList)) =>
         /\ cgPc = "loop"
         /\ cgIdx = k + 1
         /\ cgLastError.kind # "none"
         /\ cgLastError.at = k

\* The calls of cgCalls, up to the k-th, that were rate-limited.
RateLimitedUpTo(k) == {i \in 1..k : cgCalls[i].outcome = "429"}

NeedsBothAnalyzers(v, cfg, m) ==
  IF v = "p5" THEN ~HasWord(m, distressKeywords)
  ELSE /\ ~cfg.geminiOff
       /\ ~HasWord(m, distressKeywords)
       /\ ~HasWord(m, creativeKeywords)

\* C31: when the General strategy of server.js or part_005 is entered with a
\* message that needs both analyzers, both analyzer calls are outstanding
\* at its first await (neither has completed), and the strategy goes on to
\* the spiritual-support call or the conversational call only in the step
\* in which the last outstanding analyzer settles.
C31_AnalyzersStartedTogetherAndJoined ==
  [][\A r \in Slots :
       /\ (srvVariant \in {"server", "p5"}
             /\ req[r].pc = "detect" /\ req'[r].pc = "g_analyze"
             /\ NeedsBothAnalyzers(srvVariant, config, req[r].message)) =>
            req'[r].pending = {"sarcasm", "sentiment"}
       /\ (srvVariant \in {"server", "p5"}
             /\ req[r].pc = "g_analyze" /\ req'[r].pc # "g_analyze") =>
            Cardinality(req[r].pending) = 1]_vars

GeneralIntent(intent) == intent \notin {"weather", "news"}

\* The step property of C32 for request r.  With enabledOnly, the half about
\* messages without a distress keyword is stated for an enabled completion
\* backend only (server.js:298 skips both analyzers under DISABLE_GEMINI).
SentimentShortCircuit(r, enabledOnly) ==
  LET q == req[r]
      q2 == req'[r]
      distress == HasWord(q.message, distressKeywords)
      creative == HasWord(q.message, creativeKeywords)
      inGeneral == /\ srvVariant \in {"server", "p5"}
                   /\ q.pc \in {"detect", "g_analyze"}
                   /\ GeneralIntent(q2.intent)
  IN /\ (inGeneral /\ distress) =>
          \* no sentiment call, and low mood is true: the verse call follows
          \* the analysis (in server.js unless the message is creative)
          /\ "sentiment" \notin q2.pending
          /\ (q2 # q /\ q2.pc # "g_analyze"
                /\ (srvVariant = "p5" \/ ~creative)) => q2.pc = "g_gita"
     /\ (/\ inGeneral /\ ~distress /\ ~creative
         /\ enabledOnly => ~(srvVariant = "server" /\ config.geminiOff)) =>
          \* the sentiment call is issued: with the sarcasm call in
          \* server.js, after it in part_005
          /\ (q.pc = "detect" /\ q2 # q) =>
               /\ q2.pc = "g_analyze"
               /\ q2.pending = IF srvVariant = "p5"
                                 THEN {"sarcasm"} ELSE {"sarcasm", "sentiment"}
          /\ (srvVariant = "p5" /\ q.pc = "g_analyze"
                /\ q.pending = {"sarcasm"} /\ q2 # q) =>
               (q2.pc = "g_analyze" /\ q2.pending = {"sentiment"})
          \* low mood is false until the sentiment call has settled, and is
          \* what it answered afterwards
          /\ (q.pc = "g_analyze"
                /\ (srvVariant = "p5" \/ "sentiment" \in q.pending)) =>
               ~q.lowMood
          /\ (srvVariant = "server" /\ q.pc = "g_analyze"
                /\ q.pending = {"sarcasm"} /\ q2 # q) =>
               (q2.pc = "g_gita" <=> q.lowMood)

\* C32 (as stated): in the General strategy of server.js and part_005, a
\* message with a distress keyword causes no sentiment call and counts as
\* low mood; a message without one that is not creative causes a sentiment
\* call, whose answer decides low mood.
C32_SentimentShortCircuit ==
  [][\A r \in Slots : SentimentShortCircuit(r, FALSE)]_vars

\* C32 (amended): the same, the second half for an enabled completion
\* backend.
C32_SentimentShortCircuitWhenEnabled ==
  [][\A r \in Slots : SentimentShortCircuit(r, TRUE)]_vars

\* server.js, "hello there": the sentiment call has settled and answered
\* low mood, the sarcasm call is still outstanding.
C32_Witness ==
  /\ srvVariant = "server"
  /\ \E r \in Slots :
       /\ req[r].pc = "g_analyze"
       /\ req[r].message = <<"hello", "there">>
       /\ req[r].pending = {"sarcasm"}
       /\ req[r].lowMood

\* The replies each strategy can return, and the positions it awaits at.
WeatherReplies ==
  {WeatherNotConfigured(srvVariant), LocationPrompt(srvVariant),
   "I couldn't find precise weather.", "weather report",
   "weather report + activity outlook",
   "weather report + (Could not generate specific advice)"}

NewsReplies ==
  {"News service is not configured.", "news summary", "headlines",
   "No recent news articles found.",
   "Sorry, I couldn't fetch the news right now."}

GeneralReplies == {"Gita verse", "chat text", "I'm here if you need to talk."}

\* The strategies that can have brought a request to where q is: one for a
\* request inside a strategy or answered by one, news or general for the
\* failure response (only these two raise), none before the dispatch.
StrategiesOf(q) ==
  CASE q.pc \in {"w_http", "w_advice"}          -> {"weather"}
    [] q.pc \in {"n_summary", "n_http"}         -> {"news"}
    [] q.pc \in {"g_analyze", "g_gita", "g_chat"} -> {"general"}
    [] q.pc = "done" /\ q.status = 500          -> {"news", "general"}
    [] q.pc = "done" /\ q.status = 200 ->
         {st \in {"weather", "news", "general"} :
            \/ st = "weather" /\ q.reply \in WeatherReplies
            \/ st = "news" /\ q.reply \in NewsReplies
            \/ st = "general" /\ q.reply \in GeneralReplies}
    [] OTHER                                    -> {}

\* server.js:346-348
StrategyFor(intent) ==
  IF intent = "weather" THEN "weather"
  ELSE IF intent = "news" THEN "news" ELSE "general"

\* C33: in server.js, a request is in no strategy while its classification
\* is awaited; from the classifier's result on it is in, or was answered by,
\* the one strategy its intent selects (Weather for weather, News for news,
\* General for every other value), and it never passes from one strategy
\* to another.
C33_OneStrategyAfterClassification ==
  [][srvVariant = "server" =>
       \A r \in Slots :
         LET q == req[r]
             q2 == req'[r]
         IN /\ q2.pc = "detect" =>
                 (q2.intent = Undefined /\ StrategiesOf(q2) = {})
            /\ (q2.pc \notin {"idle", "detect"} /\ q2.status # 400) =>
                 StrategiesOf(q2) = {StrategyFor(q2.intent)}
                   \/ (q2.status = 500 /\ StrategyFor(q2.intent) \in StrategiesOf(q2))
            /\ (q.pc \notin {"idle", "detect", "done"} /\ q2 # q) =>
                 StrategiesOf(q) \subseteq StrategiesOf(q2)]_vars

\* One request was answered by the News strategy while another, classified
\* with an intent that is neither weather nor news, awaits the chat call.
C33_Witness ==
  /\ srvVariant = "server"
  /\ req[1].pc = "g_chat" /\ req[1].intent = "general"
  /\ req[2].pc = "done" /\ req[2].intent = "news"
  /\ req[2].reply = "headlines"

\* part_002:211-215 and 410: the classifier's result carries intent,
\* location and topic, and handleWeather(location) is given nothing else;
\* no request of part_002 has an extracted activity.
ExtractedActivity_p2 == Undefined

\* C34: in part_002's Weather strategy the completion call that follows the
\* weather report is issued only after the provider call returned, and only
\* for a request with an extracted activity.
C34_AdviceOnlyForActivityAfterReport ==
  [][\A r \in Slots :
       (ssVariant = "p2" /\ sreq'[r].pc = "w_act" /\ sreq[r].pc # "w_act") =>
         /\ sreq[r].pc = "w_http"
         /\ Truthy(ExtractedActivity_p2)]_vars

\* C35: in server.js and part_005, while the weather provider call of a
\* request is outstanding, the location query it was sent is the request's
\* resolved location (the classifier's location, else the remembered one),
\* and a request answered with a weather report has intent weather.
C35_ProviderQueriedForResolvedLocation ==
  srvVariant \in {"server", "p5"} =>
    \A r \in Slots :
      /\ req[r].pc = "w_http" =>
           queryLocation(srvVariant, req[r].location) = <<req[r].location>>
      /\ (req[r].pc = "done" /\ req[r].reply = "weather report") =>
           req[r].intent = "weather"


(***************************************************************************)
(* One request of src/backend/server.js together with its outbound calls:  *)
(* every completion call of the handler is an invocation of callGemini,    *)
(* which runs its fallback loop one network call at a time.                *)
(***************************************************************************)

\* server.js:66 - every caller of callGemini leaves `model` to its default.
OutboundCandidates == modelsToTry_server("gemini-2.0-flash")

InvocationNames ==
  {"detect", "advice", "summary", "sarcasm", "sentiment", "gita", "chat"}

\* An invocation at its first candidate.  idx is the list position of the
\* candidate called next, calls the positions called so far; state is
\* "calling" | "cooling" | "text" (returned) | "raised".
NewInvocation == [idx |-> 1, calls |-> <<>>, state |-> "calling"]

\* Faulty variant of NextCandidate: a failed candidate is tried again.
NextCandidate_same(idx) == idx

\* server.js:79  `for (const m of modelsToTry)`
NextCandidate(idx) == idx + 1

\* What a caller can make of a settled invocation: the classifier and the
\* analyzers parse the text (extractJson), the others use it as it is.
Reads(name, state) ==
  CASE name = "detect" ->
         IF state = "text" THEN ParsedIntents \cup {NoParse, NoIntentObject}
                           ELSE {CallRaised}
    [] name = "summary" ->
         IF state = "text" THEN {"text", "refusal"} ELSE {"raise"}
    [] name = "sarcasm" ->
         IF state = "text" THEN {"yes", "no", "null"} ELSE {"null"}
    [] name = "sentiment" ->
         IF state = "text" THEN {"yes", "no", "null"} ELSE {"no"}
    [] name = "gita" ->
         IF state = "text" THEN {"verse", "null"} ELSE {"null"}
    [] OTHER -> IF state = "text" THEN {"text"} ELSE {"raise"}

\* The callGemini invocations a request starts on arriving at q.pc.
StartedBy(cfg, q) ==
  CASE q.pc = "detect"    -> IF cfg.geminiOff THEN {} ELSE {"detect"}
    [] q.pc = "w_advice"  -> {"advice"}
    [] q.pc = "n_summary" -> {"summary"}
    [] q.pc = "g_analyze" -> q.pending
    [] q.pc = "g_gita"    -> {"gita"}
    [] q.pc = "g_chat"    -> {"chat"}
    [] OTHER              -> {}

\* server.js:200-240 and 264-285: a provider's answer.
AfterProvider(q, ev) ==
  IF q.pc = "w_http"
    THEN IF ev # "ok" THEN Respond(q, "I couldn't find precise weather.")
         ELSE IF ~Truthy(q.activity) THEN Respond(q, "weather report")
         ELSE IF ~Iterable(q.history)
           THEN Respond(q, "I couldn't find precise weather.")
         ELSE [q EXCEPT !.pc = "w_advice"]
    ELSE IF ev = "articles" THEN Respond(q, "headlines")
         ELSE IF ev = "empty" THEN Respond(q, "No recent news articles found.")
         ELSE Respond(q, "Sorry, I couldn't fetch the news right now.")

\* server.js:230-236, 252-262, 299-317, 310-317, 329-331: the handler where
\* the completion call `name` has settled and was read as ev.
AfterCompletion(q, name, ev) ==
  CASE name = "advice" ->
         IF ev = "text" THEN Respond(q, "weather report + activity outlook")
         ELSE Respond(q, "weather report + (Could not generate specific advice)")
    [] name = "summary" ->
         IF ev = "text" THEN Respond(q, "news summary")
         ELSE IF Truthy(q.topic) /\ ~IsString(q.topic) THEN Fail(q)
         ELSE [q EXCEPT !.pc = "n_http"]
    [] name \in {"sarcasm", "sentiment"} ->
         LET q1 == IF name = "sarcasm" \/ ev = "null"
                     THEN q ELSE [q EXCEPT !.lowMood = (ev = "yes")]
             q2 == [q1 EXCEPT !.pending = q.pending \ {name}]
         IN IF q2.pending = {} THEN AfterAnalysis("server", q2) ELSE q2
    [] name = "gita" ->
         IF ev = "verse" THEN Respond(q, "Gita verse") ELSE BuildConversation(q)
    [] name = "chat" ->
         IF ev = "text" THEN Respond(q, "chat text")
         ELSE Respond(q, "I'm here if you need to talk.")

InitOutbound ==
  /\ obCfg \in ServerConfigs
  /\ obLast = Null
  /\ obReq = NoServerRequest
  /\ obInv = EmptyStore
  /\ obIssued = 0
  /\ obResponses = 0
  /\ GeminiIdle
  /\ SessionIdle
  /\ ServerIdle
  /\ ClassifierIdle
  /\ ExtractIdle
  /\ ConversationIdle

\* The handler arrives at q2 having consumed the invocations `consumed`: the
\* invocations and the provider call of the new position are issued, and a
\* request that is done has sent its response.
Advance(q2, consumed) ==
  LET kept == DOMAIN obInv \ consumed
      fresh == StartedBy(obCfg, q2) \ kept
      provider == IF q2.pc \in {"w_http", "n_http"} /\ q2.pc # obReq.pc
                    THEN 1 ELSE 0
  IN /\ obReq' = q2
     /\ obInv' = [n \in kept \cup fresh |->
                    IF n \in fresh THEN NewInvocation ELSE obInv[n]]
     /\ obIssued' = obIssued + Cardinality(fresh) + provider
     /\ obResponses' = obResponses + (IF q2.pc = "done" THEN 1 ELSE 0)

\* server.js:334-340 - a request arrives (after the previous one was
\* answered).
Outbound_receive(message, history) ==
  /\ obReq.pc \in {"idle", "done"}
  /\ LET q2 == IF message = <<>>
                 THEN [NoServerRequest EXCEPT !.pc = "done", !.status = 400]
                 ELSE [NoServerRequest EXCEPT !.pc = "detect",
                                              !.message = message,
                                              !.history = HistoryArg(history)]
         fresh == StartedBy(obCfg, q2)
     IN /\ obReq' = q2
        /\ obInv' = [n \in fresh |-> NewInvocation]
        /\ obIssued' = Cardinality(fresh)
        /\ obResponses' = IF q2.pc = "done" THEN 1 ELSE 0
  /\ UNCHANGED <<obCfg, obLast>>
  /\ UNCHANGED <<cgVars, ssVars, srvVars, clVars, exVars, cvVars>>

\* server.js:79-114 - one iteration of callGemini's loop in the invocation
\* `name`: one http.post and the handling of its outcome.
Outbound_tryCandidate(name, o) ==
  /\ name \in DOMAIN obInv
  /\ obInv[name].state = "calling"
  /\ LET inv == obInv[name]
         e == OnOutcome_server(o)
         last == inv.idx >= Len(OutboundCandidates)
         called == [inv EXCEPT !.calls = Append(@, inv.idx)]
     IN obInv' = [obInv EXCEPT ![name] =
          IF e.act = "return" THEN [called EXCEPT !.state = "text"]
          ELSE IF e.pause THEN [called EXCEPT !.state = "cooling"]
          ELSE IF e.act = "break" \/ last THEN [called EXCEPT !.state = "raised"]
          ELSE [called EXCEPT !.idx = NextCandidate(inv.idx)]]
  /\ UNCHANGED <<obCfg, obLast, obReq, obIssued, obResponses>>
  /\ UNCHANGED <<cgVars, ssVars, srvVars, clVars, exVars, cvVars>>

\* server.js:102-106 - the rate-limit cooldown of an invocation elapses.
Outbound_cooldownDone(name) ==
  /\ name \in DOMAIN obInv
  /\ obInv[name].state = "cooling"
  /\ LET inv == obInv[name]
     IN obInv' = [obInv EXCEPT ![name] =
          IF inv.idx >= Len(OutboundCandidates)
            THEN [inv EXCEPT !.state = "raised"]
            ELSE [inv EXCEPT !.state = "calling",
                             !.idx = NextCandidate(inv.idx)]]
  /\ UNCHANGED <<obCfg, obLast, obReq, obIssued, obResponses>>
  /\ UNCHANGED <<cgVars, ssVars, srvVars, clVars, exVars, cvVars>>

\* server.js:130-148 and 340-348 - the classification settles (with
\* DISABLE_GEMINI it makes no call) and the handler enters the strategy.
Outbound_detectIntent(parsed) ==
  /\ obReq.pc = "detect"
  /\ IF obCfg.geminiOff
       THEN parsed = NoParse
       ELSE /\ "detect" \in DOMAIN obInv
            /\ obInv["detect"].state \in {"text", "raised"}
            /\ parsed \in Reads("detect", obInv["detect"].state)
  /\ LET d == detectIntent("server", obCfg, obReq.message, parsed)
     IN /\ obLast' = remember(obLast, d.location)
        /\ Advance(Dispatch("server", obCfg, obLast, obReq, d), {"detect"})
  /\ UNCHANGED obCfg
  /\ UNCHANGED <<cgVars, ssVars, srvVars, clVars, exVars, cvVars>>

\* The weather or the headlines provider answers.
Outbound_provider(ev) ==
  /\ obReq.pc \in {"w_http", "n_http"}
  /\ ev \in IF obReq.pc = "w_http" THEN {"ok", "malformed", "fail"}
            ELSE {"articles", "empty", "malformed", "fail"}
  /\ Advance(AfterProvider(obReq, ev), {})
  /\ UNCHANGED <<obCfg, obLast>>
  /\ UNCHANGED <<cgVars, ssVars, srvVars, clVars, exVars, cvVars>>

\* A completion call of a strategy has settled and its caller goes on.
Outbound_completion(name, ev) ==
  /\ name \in DOMAIN obInv
  /\ name # "detect"
  /\ obInv[name].state \in {"text", "raised"}
  /\ ev \in Reads(name, obInv[name].state)
  /\ Advance(AfterCompletion(obReq, name, ev), {name})
  /\ UNCHANGED <<obCfg, obLast>>
  /\ UNCHANGED <<cgVars, ssVars, srvVars, clVars, exVars, cvVars>>

\* Every step but the arrival of a request.
OutboundProgress ==
  \/ \E name \in InvocationNames, o \in Outcomes : Outbound_tryCandidate(name, o)
  \/ \E name \in InvocationNames : Outbound_cooldownDone(name)
  \/ \E parsed \in ParsedIntents \cup {NoParse, NoIntentObject, CallRaised} :
       Outbound_detectIntent(parsed)
  \/ \E ev \in {"ok", "articles", "empty", "malformed", "fail"} :
       Outbound_provider(ev)
  \/ \E name \in InvocationNames,
        ev \in {"text", "refusal", "raise", "yes", "no", "null", "verse"} :
       Outbound_completion(name, ev)

NextOutbound ==
  \/ \E message \in Messages \cup {<<>>}, history \in Histories :
       Outbound_receive(message, history)
  \/ \E name \in InvocationNames, o \in Outcomes : Outbound_tryCandidate(name, o)
  \/ \E name \in InvocationNames : Outbound_cooldownDone(name)
  \/ \E parsed \in ParsedIntents \cup {NoParse, NoIntentObject, CallRaised} :
       Outbound_detectIntent(parsed)
  \/ \E ev \in {"ok", "articles", "empty", "malformed", "fail"} :
       Outbound_provider(ev)
  \/ \E name \in InvocationNames,
        ev \in {"text", "refusal", "raise", "yes", "no", "null", "verse"} :
       Outbound_completion(name, ev)

\* Every outstanding call (a network call, a cooldown timer, a call the
\* handler awaits) eventually returns or fails.
SpecOutbound == InitOutbound /\ [][NextOutbound]_vars /\ WF_vars(OutboundProgress)

\* What C36 says of every state: at most one response, sent exactly when
\* the request is done; at most five outbound operations per request (the
\* classification, two analyzers, the verse call and the chat call on the
\* longest path); and in every invocation of callGemini the k-th network
\* call goes to the k-th candidate of the list, so that no candidate is
\* called twice and the calls number at most the candidates.
OutboundBounded ==
  /\ obResponses = (IF obReq.pc = "done" THEN 1 ELSE 0)
  /\ obIssued <= 5
  /\ \A name \in DOMAIN obInv :
       LET calls == obInv[name].calls
       IN /\ Len(calls) <= Len(OutboundCandidates)
          /\ \A k \in 1..Len(calls) : calls[k] = k

\* C36: in server.js, provided every outstanding call eventually returns or
\* fails, every request that was received is eventually answered, with one
\* response, after a bounded number of outbound calls, each invocation of
\* callGemini calling each candidate of its list at most once.
C36_RequestTerminatesWithBoundedCalls ==
  /\ []OutboundBounded
  /\ (obReq.pc \notin {"idle", "done"}) ~> (obReq.pc = "done")

\* A request of the General strategy was answered after five outbound
\* operations, the last of which, the chat call, raised.
C36_Witness ==
  /\ obReq.pc = "done"
  /\ obReq.status = 200
  /\ obReq.reply = "I'm here if you need to talk."
  /\ obIssued = 5
  /\ obResponses = 1


(***************************************************************************)
(* Further claims about the session memory (under SpecSession)             *)
(***************************************************************************)

\* C37: whenever no handler is running (every request is suspended at an
\* await or finished), every session's history has even length and consists
\* of exchanges, the user turn of a request followed at once by the agent
\* turn of the same request; and it is what remains of the sequence of all
\* turns recorded for the session after an even number of leading turns
\* was evicted.
C37_HistoryIsWholeExchanges ==
  \A sid \in DOMAIN sessionStore :
    LET h == sessionStore[sid]
        log == HistoryOf(turnLog, sid)
        evicted == Len(log) - Len(h)
    IN /\ Len(h) % 2 = 0
       /\ \A k \in 1..(Len(h) \div 2) :
            \E n \in 1..Len(served) :
              /\ h[2 * k - 1] = Turn(ssVariant, "user", MessageOf(n))
              /\ h[2 * k] = Turn(ssVariant, ReplyRole(ssVariant), ReplyOf(n))
       /\ evicted >= 0
       /\ evicted % 2 = 0
       /\ \A i \in 1..Len(h) : h[i] = log[evicted + i]

\* One exchange was evicted from a session while another request of the
\* same session is suspended at its chat call.
C37_Witness ==
  \E r \in Slots :
    /\ sreq[r].pc = "g_chat"
    /\ sreq[r].sid \in DOMAIN turnLog
    /\ Len(turnLog[sreq[r].sid]) = 2 * MAX_HISTORY_TURNS + 2
    /\ sessionStore[sreq[r].sid][1] = Turn(ssVariant, "user", MessageOf(2))

\* C38: a step in which a request is rejected (400) or ends in the failure
\* response (500) leaves every session's history as it was; more, a history
\* changes only in a step in which a request of that session completes with
\* a reply, so no step of a request that is later rejected or fails has
\* changed one; and a rejected request is answered in the step in which it
\* arrives, without having been suspended at any outbound call or
\* classified.
C38_FailedRequestsLeaveHistories ==
  [][/\ \A r \in Slots :
          (sreq'[r] # sreq[r] /\ sreq'[r].pc = "done"
             /\ sreq'[r].status \in {400, 500}) =>
            /\ turnLog' = turnLog
            /\ \A sid \in DOMAIN sessionStore' :
                 sessionStore'[sid] = HistoryOf(sessionStore, sid)
     /\ \A sid \in DOMAIN sessionStore' :
          sessionStore'[sid] # HistoryOf(sessionStore, sid) =>
            \E r \in Slots : Replies(r) /\ sreq[r].sid = sid
     /\ \A r \in Slots :
          (sreq'[r] # sreq[r] /\ sreq'[r].status = 400) =>
            /\ sreq[r].pc \notin AwaitPcs
            /\ sreq'[r].pc = "done"
            /\ sreq'[r].intent = ""]_vars

\* A request was rejected and another ended in the failure response while
\* the failed request's session holds a recorded exchange.
C38_Witness ==
  \E r, q \in Slots :
    /\ sreq[r].pc = "done" /\ sreq[r].status = 500
    /\ sreq[q].pc = "done" /\ sreq[q].status = 400
    /\ sreq[r].sid \in DOMAIN sessionStore
    /\ Len(sessionStore[sreq[r].sid]) = 2

(***************************************************************************)
(* SpecConversation: the conversational completion of the revisions with a *)
(* sessionStore, with the session arrays kept by identity.                 *)
(*                                                                         *)
(* getSessionHistory returns the array stored in the Map, not a copy:      *)
(* updateSessionHistory pushes onto that very array, and replaces the      *)
(* Map's entry by a new array (slice) on eviction.  A handler suspended in *)
(* its completion call keeps the reference it was given.                   *)
(***************************************************************************)

\* Requests served in one behaviour.
MaxConversations == 8

Mem(heap, store) == [heap |-> heap, store |-> store]

\* Faulty variant of getSessionHistoryRef: a missing key is given the array
\* of a key that exists.
getSessionHistoryRef_sharedArray(m, sessionId) ==
  IF sessionId \in DOMAIN m.store
    THEN m
    ELSE IF DOMAIN m.store = {}
      THEN Mem(Append(m.heap, <<>>),
               [k \in {sessionId} |-> Len(m.heap) + 1])
      ELSE Mem(m.heap,
               [k \in DOMAIN m.store \cup {sessionId} |->
                  IF k = sessionId
                    THEN m.store[CHOOSE j \in DOMAIN m.store : TRUE]
                    ELSE m.store[k]])

\* part_002:63-68, part_004:44-47: `sessionStore.set(sessionId, [])` when the
\* key is missing; the array returned is m.heap[m.store[sessionId]] of the
\* result.
getSessionHistoryRef(m, sessionId) ==
  IF sessionId \in DOMAIN m.store
    THEN m
    ELSE Mem(Append(m.heap, <<>>),
             [k \in DOMAIN m.store \cup {sessionId} |->
                IF k = sessionId THEN Len(m.heap) + 1 ELSE m.store[k]])

\* part_002:70-78, part_004:49-55: `history.push(...)` changes the stored
\* array in place; `sessionStore.set(sessionId, history.slice(-12))` stores a
\* new array and leaves the old one, with the pushed turn, to its holders.
updateSessionHistoryRef(m, sessionId, turn) ==
  LET g == getSessionHistoryRef(m, sessionId)
      a == g.store[sessionId]
      pushed == Append(g.heap[a], turn)
      h == [g.heap EXCEPT ![a] = pushed]
  IN IF Len(pushed) > MAX_HISTORY_TURNS * 2
       THEN Mem(Append(h, SliceLast(pushed, MAX_HISTORY_TURNS * 2)),
                [g.store EXCEPT ![sessionId] = Len(h) + 1])
       ELSE Mem(h, g.store)

\* part_002:426-428, part_004:219-220.  In this specification a text is
\* named by the session id of the request that carried it (`from`): the
\* handlers never compare texts, and an array a handler holds only grows, so
\* two readings of it differ exactly when their lengths do.
RecordExchangeRef(m, v, sid, from) ==
  updateSessionHistoryRef(
    updateSessionHistoryRef(m, sid, Turn(v, "user", MessageOf(from))),
    sid, Turn(v, ReplyRole(v), ReplyOf(from)))

\* The prompt built from the message of a request of session `from`
\* (part_002:388 prefixes the system instruction, part_004:211 the intended
\* meaning if sarcastic).
PromptOf(from) == <<"prompt", from>>

\* part_002:112-115  `const contents = [...history]; contents.push(user turn)`
Contents_p2(history, from) == Append(history, Turn_p2("user", PromptOf(from)))

\* part_004:207-211  messages: the system turn, the mapped history, the user
\* turn.
Contents_p4(history, from) ==
  <<[role |-> "system", text |-> <<"system">>]>>
    \o [i \in 1..Len(history) |->
          [role |-> IF history[i].role = "assistant" THEN "assistant" ELSE "user",
           text |-> history[i].text]]
    \o <<[role |-> "user", text |-> PromptOf(from)]>>

Contents(v, history, from) ==
  IF v = "p2" THEN Contents_p2(history, from) ELSE Contents_p4(history, from)

\* The candidates of the conversational completion: part_002:393 passes
\* GEMINI_MODEL (default 'gemini-2.5-flash', part_002:24) to callGemini;
\* part_004:206 makes one call to one model.
ChatCandidates(v) ==
  IF v = "p2" THEN modelsToTry_p2("gemini-2.5-flash")
              ELSE <<"llama-3.3-70b-versatile">>

\* What the loop does with a candidate's outcome (part_002:136-159); in
\* part_004 a text is the reply and anything else rejects (206-214).
ChatEffect(v, o) ==
  IF v = "p2" THEN OnOutcome_p2(o).act
              ELSE IF o = "text" THEN "return" ELSE "break"

\* One outcome per way the loop can go on.
ChatOutcomes == {"text", "nocand", "503", "400"}

\* How a request gets to its reply:
\*   "chat"   the general strategy reaches its conversational completion
\*   "other"  another strategy, the verse, or the canned text replies
\*   "fail"   an exception reaches the handler's catch
ConversationRoutes == {"chat", "other", "fail"}

InitConversation ==
  /\ cvVariant \in SessionVariants
  /\ cvHeap = <<>>
  /\ cvStore = [k \in {} |-> 0]
  /\ cvReq = [r \in Slots |-> NoConversation]
  /\ cvArrived = 0
  /\ GeminiIdle
  /\ SessionIdle
  /\ ServerIdle
  /\ ClassifierIdle
  /\ ExtractIdle
  /\ OutboundIdle

ConvFree(r) ==
  /\ cvReq[r].pc \in {"idle", "done"}
  /\ \A q \in Slots : q < r => cvReq[q].pc \notin {"idle", "done"}

\* app.post('/chat') up to its first await (part_002:402-409,
\* part_004:171-178): the request is suspended in its classification.
Conv_receive(r, provided) ==
  /\ ConvFree(r)
  /\ cvArrived < MaxConversations
  /\ cvArrived' = cvArrived + 1
  /\ cvReq' = [cvReq EXCEPT ![r] =
       [NoConversation EXCEPT !.pc = "pre",
                              !.sid = SessionIdOf(cvVariant, provided)]]
  /\ UNCHANGED <<cvVariant, cvHeap, cvStore>>
  /\ UNCHANGED <<cgVars, ssVars, srvVars, clVars, exVars, obVars>>

\* The tail of the handler: record the exchange and send the reply
\* (part_002:426-430, part_004:219-221).
ConvReply(r) ==
  LET m == RecordExchangeRef(Mem(cvHeap, cvStore), cvVariant,
                             cvReq[r].sid, cvReq[r].sid)
  IN /\ cvHeap' = m.heap
     /\ cvStore' = m.store

\* The request's last await before its strategy's reply or before the
\* conversational completion resolves.  On the "chat" route the handler takes
\* the session's array (part_002:387, part_004:204) and sends the first
\* candidate its contents before it is suspended again.
Conv_route(r, route) ==
  /\ cvReq[r].pc = "pre"
  /\ CASE route = "chat" ->
            LET m == getSessionHistoryRef(Mem(cvHeap, cvStore), cvReq[r].sid)
                a == m.store[cvReq[r].sid]
            IN /\ cvHeap' = m.heap
               /\ cvStore' = m.store
               /\ cvReq' = [cvReq EXCEPT ![r] =
                    [@ EXCEPT !.pc = "chat", !.history = a,
                              !.start = m.heap[a],
                              !.sent = <<Contents(cvVariant, m.heap[a],
                                                  cvReq[r].sid)>>]]
       [] route = "other" ->
            /\ ConvReply(r)
            /\ cvReq' = [cvReq EXCEPT ![r] =
                 [NoConversation EXCEPT !.pc = "done", !.status = 200]]
       [] OTHER ->
            /\ cvReq' = [cvReq EXCEPT ![r] =
                 [NoConversation EXCEPT !.pc = "done", !.status = 500]]
            /\ UNCHANGED <<cvHeap, cvStore>>
  /\ UNCHANGED <<cvVariant, cvArrived>>
  /\ UNCHANGED <<cgVars, ssVars, srvVars, clVars, exVars, obVars>>

\* The candidate's answer arrives.  part_002:111-159: a text returns; on
\* "next" the loop builds the contents for the next candidate from `history`
\* as that array is now and posts them; when the loop ends in a throw,
\* handleGeneralResponse (394-396) returns its canned text.  part_004: the
\* text is the reply, a rejection reaches the handler's catch (223-226).
Conv_outcome(r, o) ==
  LET q == cvReq[r]
      effect == ChatEffect(cvVariant, o)
  IN /\ q.pc = "chat"
     /\ IF effect = "next" /\ q.idx < Len(ChatCandidates(cvVariant))
          THEN /\ cvReq' = [cvReq EXCEPT ![r] =
                    [q EXCEPT !.idx = q.idx + 1,
                              !.sent = Append(q.sent,
                                 Contents(cvVariant, cvHeap[q.history], q.sid))]]
               /\ UNCHANGED <<cvHeap, cvStore>>
          ELSE IF cvVariant = "p4" /\ effect # "return"
            THEN /\ cvReq' = [cvReq EXCEPT ![r] =
                      [NoConversation EXCEPT !.pc = "done", !.status = 500]]
                 /\ UNCHANGED <<cvHeap, cvStore>>
            ELSE /\ ConvReply(r)
                 /\ cvReq' = [cvReq EXCEPT ![r] =
                      [NoConversation EXCEPT !.pc = "done", !.status = 200]]
     /\ UNCHANGED <<cvVariant, cvArrived>>
     /\ UNCHANGED <<cgVars, ssVars, srvVars, clVars, exVars, obVars>>

NextConversation ==
  \/ \E r \in Slots, provided \in ProvidedSessionIds : Conv_receive(r, provided)
  \/ \E r \in Slots, route \in ConversationRoutes : Conv_route(r, route)
  \/ \E r \in Slots, o \in ChatOutcomes : Conv_outcome(r, o)

SpecConversation == InitConversation /\ [][NextConversation]_vars

(***************************************************************************)
(* Claims about the conversation sent (under SpecConversation)             *)
(***************************************************************************)

\* The history stored for a session id (none stored: empty).
StoredHistory(heap, store, sid) ==
  IF sid \in DOMAIN store THEN heap[store[sid]] ELSE <<>>

\* The session whose request carried the text of a turn ("" for the system
\* turn).
CarriedBy(turn) == IF Len(turn.text) = 2 THEN turn.text[2] ELSE ""

\* C39: session histories are isolated.  Every turn of every conversation a
\* request of session A has sent to a completion candidate was carried by a
\* request of session A (the system turn aside), and the conversation the
\* first candidate is sent is the array taken for A plus the new user turn; a
\* step of a request of session A leaves the stored history of every other
\* session id as it was.
C39_SessionHistoriesIsolated ==
  /\ [](\A r \in Slots :
          cvReq[r].pc = "chat" =>
            /\ \A i \in 1..Len(cvReq[r].sent) :
                 \A j \in 1..Len(cvReq[r].sent[i]) :
                   CarriedBy(cvReq[r].sent[i][j]) \in {"", cvReq[r].sid}
            /\ cvReq[r].sent[1] =
                 Contents(cvVariant, cvReq[r].start, cvReq[r].sid))
  /\ [][\A r \in Slots :
          cvReq'[r] # cvReq[r] =>
            \A sid \in (DOMAIN cvStore \cup DOMAIN cvStore')
                         \ {cvReq[r].sid, cvReq'[r].sid} :
              StoredHistory(cvHeap', cvStore', sid) =
                StoredHistory(cvHeap, cvStore, sid)]_vars

\* Two requests of different sessions are both suspended in their
\* completion calls, each having sent a conversation with recorded turns.
C39_Witness ==
  \E r, q \in Slots :
    /\ cvReq[r].pc = "chat" /\ cvReq[q].pc = "chat"
    /\ cvReq[r].sid # cvReq[q].sid
    /\ Len(cvReq[r].start) >= 2
    /\ Len(cvReq[q].start) >= 2

\* C40: within one invocation of callGemini in conversation mode (part_002),
\* every candidate is sent the same conversation: the session history as it
\* was when the invocation started, plus the new user turn.
C40_CandidatesSentSameConversation ==
  \A r \in Slots :
    (cvVariant = "p2" /\ cvReq[r].pc = "chat") =>
      \A i \in 1..Len(cvReq[r].sent) :
        cvReq[r].sent[i] = Contents_p2(cvReq[r].start, cvReq[r].sid)

====
